---------------------------- MODULE Spec2Model ----------------------------
(***************************************************************************)
(* Model of the internal-transfers service (haxgad/fin): the accounts and  *)
(* transactions tables of src/database/migrations.go and the repository    *)
(* operations of src/database/queries.go running against them.             *)
(*                                                                         *)
(* Decimal values are integers counting units of 10^-6.  The balance and   *)
(* amount columns are DECIMAL(15,5): a stored value is a multiple of 10,   *)
(* and a value written to a column is rounded to one (Round5).             *)
(*                                                                         *)
(* A transfer (CreateTransaction) is one database transaction: its row     *)
(* locks (SELECT ... FOR UPDATE) are held until commit or rollback, its    *)
(* writes are private to it until commit, and every other statement reads  *)
(* the committed tables only (read committed).                             *)
(***************************************************************************)
EXTENDS Integers, Sequences, FiniteSets, TLC

\* Bound on the number of CreateTransaction calls of one behaviour.
MaxCalls == 2

\* Migrate is run at most this many times.
MaxRuns == 2

\* The callers (one goroutine per request) that may run transfers concurrently.
Workers == {"w1", "w2", "w3"}

\* The callers that call CreateTransaction with arbitrary arguments.
Callers == {"w1", "w2"}

\* The account ids of the model (BIGINT account_id).
Ids == {1, 2, 3, 4}

\* The account ids used with arbitrary arguments.
CallIds == {1, 2}

\* Initial balances given to CreateAccount (units of 10^-6).
InitialBalances == {-10, 0, 20}

\* Amounts given to CreateTransaction (units of 10^-6): 4 and 15 have a sixth
\* fractional digit, 10 is 0.00001.
Amounts == {4, 10, 15}

\* The calls the callers make: any two different accounts, any amount.
Requests == {r \in [source : CallIds, destination : CallIds, amount : Amounts] : r.source # r.destination}

\* No transaction holds the row lock.
NoTx == "none"

\* The empty write set of a transaction.
NoWrites == [i \in {} |-> 0]

\* The request of a caller that has not called yet.
NoReq == [source |-> 0, destination |-> 0, amount |-> 0]

\* The value of lastRead before any GetAccount.
NoRead == [id |-> 0, found |-> FALSE, balance |-> 0]

\* The in-memory repositories of the handler tests before any call: the map of
\* accounts, the holders of its RWMutex, and for every caller the position of its
\* request, the request, the account pointer it was given and what it got back.
NoMock ==
  [accounts |-> [i \in {} |-> 0], writer |-> NoTx, readers |-> {},
   pc |-> [w \in Workers |-> "idle"], req |-> [w \in Workers |-> NoReq],
   id |-> [w \in Workers |-> 0], ptr |-> [w \in Workers |-> 0],
   balance |-> [w \in Workers |-> 0], result |-> [w \in Workers |-> ""]]

VARIABLES
  accounts,            \* committed rows of table accounts: account_id -> balance
  transactions,        \* committed rows of table transactions, in insertion order
  seq,                 \* last value drawn from the BIGSERIAL sequence of transactions.id
  rowLock,             \* account_id -> the transaction holding the row lock, or NoTx
  pc,                  \* caller -> position in CreateTransaction
  req,                 \* caller -> arguments of its current CreateTransaction call
  sourceBalance,       \* caller -> local sourceBalance (scanned under the lock)
  destinationBalance,  \* caller -> local destinationBalance (scanned under the lock)
  txWrites,            \* caller -> uncommitted account row versions of its transaction
  txInsert,            \* caller -> uncommitted transactions rows of its transaction
  result,              \* caller -> error text returned by its last call ("ok" for nil)
  calls,               \* number of CreateTransaction calls started
  okCount,             \* number of CreateTransaction calls that returned nil
  lastRead,            \* what the last GetAccount returned
  handler,             \* caller -> position, request and response of its HTTP handler
  mock,                \* MockAccountRepository and the requests running against it
  db                   \* the *sql.DB handle, the schema behind it and the position of Migrate

vars == <<accounts, transactions, seq, rowLock, pc, req, sourceBalance,
          destinationBalance, txWrites, txInsert, result, calls, okCount, lastRead, handler,
          mock, db>>

txVars == <<pc, req, sourceBalance, destinationBalance, txWrites, txInsert, result>>

--------------------------------------------------------------------------
(* Decimal arithmetic and the column types *)

\* (mutant: LessThanOrEqual in place of LessThan)
LessThanOrEqual(a, b) == a <= b

\* (mutant: the comparison never finds the balance too small)
LessThanNever(a, b) == FALSE

\* decimal.Decimal.LessThan
LessThan(a, b) == a < b

\* (mutant: the column drops the digits after the fifth)
Trunc5(x) == IF x >= 0 THEN (x \div 10) * 10 ELSE 0 - (((0 - x) \div 10) * 10)

\* Assignment to a DECIMAL(15,5) column: round to 5 fractional digits, half away
\* from zero.
Round5(x) == IF x >= 0 THEN ((x + 5) \div 10) * 10 ELSE 0 - ((((0 - x) + 5) \div 10) * 10)

\* CHECK (balance >= 0) of table accounts (mutant: the constraint is missing).
BalanceCheckMissing(b) == TRUE
BalanceCheck(b) == b >= 0

\* The largest value of a DECIMAL(15,5) column, 9999999999.99999, with three
\* integer digits in place of ten (the model's integers have 32 bits).
ColumnMax == 999999990

\* (mutant: the column holds any value)
FitsAlways(b) == TRUE

\* A value can be stored in a DECIMAL(15,5) column; a larger one is refused with
\* a numeric field overflow.
Fits(b) == b <= ColumnMax /\ b >= 0 - ColumnMax

\* (mutant: the constraint is missing)
AmountCheckMissing(a) == TRUE

\* CHECK (amount > 0) of table transactions.
AmountCheck(a) == a > 0

\* (mutant: the constraint is missing)
DistinctCheckMissing(s, d) == TRUE

\* CHECK (source_account_id != destination_account_id) of table transactions.
DistinctCheck(s, d) == s # d

\* FOREIGN KEY (...) REFERENCES accounts(account_id), both columns.
ForeignKeys(s, d) == s \in DOMAIN accounts /\ d \in DOMAIN accounts

--------------------------------------------------------------------------
(* Row locks and row visibility *)

\* (mutant: a plain SELECT, without FOR UPDATE, never waits)
RowFreeNoLock(w, id) == TRUE

\* (mutant: LOCK TABLE accounts instead of a row lock)
RowFreeTableLock(w, id) == \A i \in Ids : rowLock[i] \in {NoTx, w}

\* SELECT ... FOR UPDATE returns at once when the row is unlocked or locked by the
\* same transaction, and waits otherwise.
RowFree(w, id) == rowLock[id] \in {NoTx, w}

\* The row version a statement of transaction w sees: its own write if it made one,
\* else the committed row.
Visible(w, id) == IF id \in DOMAIN txWrites[w] THEN txWrites[w][id] ELSE accounts[id]

\* (mutant: a dirty read, the newest row version whether committed or not)
ReadUncommitted(id) ==
  IF \E w \in Workers : id \in DOMAIN txWrites[w]
    THEN txWrites[CHOOSE w \in Workers : id \in DOMAIN txWrites[w]][id]
    ELSE accounts[id]

\* The row a statement outside any transfer sees (read committed).
ReadCommitted(id) == accounts[id]

\* The balance transaction w scanned when it locked row id.
LockedBalance(w, id) == IF id = req[w].source THEN sourceBalance[w] ELSE destinationBalance[w]

\* (mutant: the transaction is never ended, its locks stay)
ReleaseLocksNever(w) == rowLock

\* Rollback and commit both release every row lock of the transaction.
ReleaseLocks(w) == [i \in Ids |-> IF rowLock[i] = w THEN NoTx ELSE rowLock[i]]

\* (mutant: the UPDATE runs on the pool, db.Exec, and is committed at once)
ExecUpdateAutocommit(w, id, val) ==
  /\ accounts' = [accounts EXCEPT ![id] = val]
  /\ UNCHANGED txWrites

\* tx.Exec of an UPDATE: the new row version belongs to the transaction.
ExecUpdate(w, id, val) ==
  /\ txWrites' = [txWrites EXCEPT ![w] = [i \in (DOMAIN @) \cup {id} |-> IF i = id THEN val ELSE @[i]]]
  /\ UNCHANGED accounts

\* (mutant: the INSERT runs on the pool, db.Exec, and is committed at once)
ExecInsertAutocommit(w, row) ==
  /\ transactions' = Append(transactions, row)
  /\ UNCHANGED txInsert

\* tx.Exec of the INSERT: the new row belongs to the transaction.
ExecInsert(w, row) ==
  /\ txInsert' = [txInsert EXCEPT ![w] = Append(@, row)]
  /\ UNCHANGED transactions

\* What the three migrations create, in the order of the migrations slice.
Migrations == <<"accounts", "transactions", "indexes">>

\* The open handle of a database on which Migrate has returned nil.
MigratedDb == [handle |-> "open", schema |-> {"accounts", "transactions", "indexes"},
               migrating |-> FALSE, i |-> 0, runs |-> 1, error |-> "nil", outcome |-> ""]

\* A handler that has received no request.
NoHandler == [pc |-> "idle", id |-> 0, balance |-> 0, status |-> 0, message |-> "", account |-> NoRead]

\* The accounts table after transaction w commits.
Committed(w) == [i \in DOMAIN accounts |-> Visible(w, i)]

--------------------------------------------------------------------------
(* AccountRepository *)

\* AccountRepository.CreateAccount: one autocommitted INSERT.  It fails on a
\* duplicate primary key and on CHECK (balance >= 0).
CreateAccount(id, initialBalance) ==
  /\ id \notin DOMAIN accounts
  /\ BalanceCheck(Round5(initialBalance)) /\ Fits(Round5(initialBalance))
  /\ accounts' = (id :> Round5(initialBalance)) @@ accounts
  /\ UNCHANGED <<transactions, seq, rowLock, txVars, calls, okCount, lastRead, mock, handler, db>>

\* What AccountRepository.GetAccount(id) returns: the row, or "account not found".
GetAccountResult(id) ==
  IF id \in DOMAIN accounts
    THEN [id |-> id, found |-> TRUE, balance |-> ReadCommitted(id)]
    ELSE [id |-> id, found |-> FALSE, balance |-> 0]

\* AccountRepository.GetAccount: one SELECT outside any transaction.
GetAccount(id) ==
  /\ lastRead' = GetAccountResult(id)
  /\ UNCHANGED <<accounts, transactions, seq, rowLock, txVars, calls, okCount, mock, handler, db>>

--------------------------------------------------------------------------
(* TransactionRepository.CreateTransaction *)

\* The caller invokes CreateTransaction(sourceAccountID, destinationAccountID, amount).
Call(w, r) ==
  /\ pc[w] \in {"idle", "done"}
  /\ calls < MaxCalls
  /\ calls' = calls + 1
  /\ pc' = [pc EXCEPT ![w] = "begin"]
  /\ req' = [req EXCEPT ![w] = r]
  /\ result' = [result EXCEPT ![w] = ""]
  /\ UNCHANGED <<accounts, transactions, seq, rowLock, sourceBalance, destinationBalance,
                 txWrites, txInsert, okCount, lastRead, mock, handler, db>>

\* An error return: the deferred tx.Rollback() discards the transaction's writes and
\* releases its locks.
Fail(w, msg) ==
  /\ pc' = [pc EXCEPT ![w] = "done"]
  /\ result' = [result EXCEPT ![w] = msg]
  /\ txWrites' = [txWrites EXCEPT ![w] = NoWrites]
  /\ txInsert' = [txInsert EXCEPT ![w] = <<>>]
  /\ rowLock' = ReleaseLocks(w)
  /\ sourceBalance' = [sourceBalance EXCEPT ![w] = 0]
  /\ destinationBalance' = [destinationBalance EXCEPT ![w] = 0]
  /\ UNCHANGED <<accounts, transactions, req, calls, okCount, lastRead, mock, handler, db>>

\* r.db.Begin()
Begin(w) ==
  /\ pc[w] = "begin"
  /\ pc' = [pc EXCEPT ![w] = "lockSrc"]
  /\ UNCHANGED <<accounts, transactions, seq, rowLock, req, sourceBalance, destinationBalance,
                 txWrites, txInsert, result, calls, okCount, lastRead, mock, handler, db>>

\* SELECT balance ... FOR UPDATE of the source row, and the balance check.
LockSource(w) ==
  /\ pc[w] = "lockSrc"
  /\ UNCHANGED seq
  /\ IF req[w].source \notin DOMAIN accounts
       THEN Fail(w, "source account not found")
       ELSE /\ RowFree(w, req[w].source)
            /\ IF LessThan(accounts[req[w].source], req[w].amount)
                 THEN Fail(w, "insufficient balance")
                 ELSE /\ rowLock' = [rowLock EXCEPT ![req[w].source] = w]
                      /\ sourceBalance' = [sourceBalance EXCEPT ![w] = accounts[req[w].source]]
                      /\ pc' = [pc EXCEPT ![w] = "lockDst"]
                      /\ UNCHANGED <<accounts, transactions, req, destinationBalance,
                                     txWrites, txInsert, result, calls, okCount, lastRead, mock, handler, db>>

\* SELECT balance ... FOR UPDATE of the destination row.
LockDestination(w) ==
  /\ pc[w] = "lockDst"
  /\ UNCHANGED seq
  /\ IF req[w].destination \notin DOMAIN accounts
       THEN Fail(w, "destination account not found")
       ELSE /\ RowFree(w, req[w].destination)
            /\ rowLock' = [rowLock EXCEPT ![req[w].destination] = w]
            /\ destinationBalance' = [destinationBalance EXCEPT ![w] = Visible(w, req[w].destination)]
            /\ pc' = [pc EXCEPT ![w] = "updSrc"]
            /\ UNCHANGED <<accounts, transactions, req, sourceBalance,
                           txWrites, txInsert, result, calls, okCount, lastRead, mock, handler, db>>

\* UPDATE accounts SET balance = balance - $1 WHERE account_id = $2
UpdateSource(w) ==
  /\ pc[w] = "updSrc"
  /\ UNCHANGED seq
  /\ LET new == Round5(Visible(w, req[w].source) - req[w].amount)
     IN IF BalanceCheck(new) /\ Fits(new)
          THEN /\ ExecUpdate(w, req[w].source, new)
               /\ pc' = [pc EXCEPT ![w] = "updDst"]
               /\ UNCHANGED <<transactions, rowLock, req, sourceBalance, destinationBalance,
                              txInsert, result, calls, okCount, lastRead, mock, handler, db>>
          ELSE Fail(w, "failed to update source account")

\* UPDATE accounts SET balance = balance + $1 WHERE account_id = $2
UpdateDestination(w) ==
  /\ pc[w] = "updDst"
  /\ UNCHANGED seq
  /\ LET new == Round5(Visible(w, req[w].destination) + req[w].amount)
     IN IF BalanceCheck(new) /\ Fits(new)
          THEN /\ ExecUpdate(w, req[w].destination, new)
               /\ pc' = [pc EXCEPT ![w] = "insert"]
               /\ UNCHANGED <<transactions, rowLock, req, sourceBalance, destinationBalance,
                              txInsert, result, calls, okCount, lastRead, mock, handler, db>>
          ELSE Fail(w, "failed to update destination account")

\* (mutant: the id is one more than the number of committed rows)
NextvalFromRows == Len(transactions) + 1

\* nextval of the sequence behind transactions.id (BIGSERIAL).
Nextval == seq + 1

\* INSERT INTO transactions (...): the id is drawn from the sequence before the
\* row is checked, and a sequence value is never given back.
InsertRecord(w) ==
  /\ pc[w] = "insert"
  /\ seq' = Nextval
  /\ IF /\ AmountCheck(Round5(req[w].amount)) /\ Fits(Round5(req[w].amount))
        /\ DistinctCheck(req[w].source, req[w].destination)
        /\ ForeignKeys(req[w].source, req[w].destination)
       THEN /\ ExecInsert(w, [id |-> Nextval, source |-> req[w].source,
                               destination |-> req[w].destination,
                               amount |-> Round5(req[w].amount)])
            /\ pc' = [pc EXCEPT ![w] = "commit"]
            /\ UNCHANGED <<accounts, rowLock, req, sourceBalance,
                           destinationBalance, txWrites, result, calls, okCount, lastRead, mock, handler, db>>
       ELSE Fail(w, "failed to create transaction record")

\* tx.Commit() and return nil: the transaction's rows become the committed rows,
\* all at once, and its locks are released.
Commit(w) ==
  /\ pc[w] = "commit"
  /\ accounts' = Committed(w)
  /\ transactions' = transactions \o txInsert[w]
  /\ rowLock' = ReleaseLocks(w)
  /\ txWrites' = [txWrites EXCEPT ![w] = NoWrites]
  /\ txInsert' = [txInsert EXCEPT ![w] = <<>>]
  /\ pc' = [pc EXCEPT ![w] = "done"]
  /\ result' = [result EXCEPT ![w] = "ok"]
  /\ okCount' = okCount + 1
  /\ sourceBalance' = [sourceBalance EXCEPT ![w] = 0]
  /\ destinationBalance' = [destinationBalance EXCEPT ![w] = 0]
  /\ UNCHANGED <<seq, req, calls, lastRead, mock, handler, db>>

\* The error text CreateTransaction returns when the statement at position p fails
\* in the storage layer.
FaultMessage(p) ==
  CASE p = "begin"   -> "failed to begin transaction"
    [] p = "lockSrc" -> "failed to get source account"
    [] p = "lockDst" -> "failed to get destination account"
    [] p = "updSrc"  -> "failed to update source account"
    [] p = "updDst"  -> "failed to update destination account"
    [] p = "insert"  -> "failed to create transaction record"
    [] p = "commit"  -> "failed to commit transaction"

\* A statement of the transaction fails in the storage layer (connection lost,
\* statement cancelled): CreateTransaction returns the wrapped error.
StorageFault(w) ==
  /\ pc[w] \in {"begin", "lockSrc", "lockDst", "updSrc", "updDst", "insert", "commit"}
  /\ UNCHANGED seq
  /\ Fail(w, FaultMessage(pc[w]))

\* w waits for the lock on its destination row, which v holds.
WaitsFor(w, v) ==
  /\ w # v
  /\ pc[w] = "lockDst"
  /\ req[w].destination \in DOMAIN accounts
  /\ rowLock[req[w].destination] = v

\* w waits for v, directly or through at most n further waiting transactions.
RECURSIVE WaitChain(_, _, _)
WaitChain(w, v, n) ==
  \/ WaitsFor(w, v)
  \/ n > 0 /\ \E u \in Workers : WaitsFor(w, u) /\ WaitChain(u, v, n - 1)

\* The storage engine's deadlock detector: a transaction that waits in a cycle of
\* waiting transactions is aborted, and its SELECT ... FOR UPDATE returns an error.
DeadlockAbort(w) ==
  /\ pc[w] = "lockDst"
  /\ WaitChain(w, w, Cardinality(Workers))
  /\ UNCHANGED seq
  /\ Fail(w, "failed to get destination account")

--------------------------------------------------------------------------
(* The service: empty tables after Migrate, callers idle *)

Init ==
  /\ accounts = [i \in {} |-> 0]
  /\ transactions = <<>>
  /\ seq = 0
  /\ rowLock = [i \in Ids |-> NoTx]
  /\ pc = [w \in Workers |-> "idle"]
  /\ req = [w \in Workers |-> NoReq]
  /\ sourceBalance = [w \in Workers |-> 0]
  /\ destinationBalance = [w \in Workers |-> 0]
  /\ txWrites = [w \in Workers |-> NoWrites]
  /\ txInsert = [w \in Workers |-> <<>>]
  /\ result = [w \in Workers |-> ""]
  /\ calls = 0
  /\ okCount = 0
  /\ lastRead = NoRead
  /\ handler = [w \in Workers |-> NoHandler]
  /\ db = MigratedDb
  /\ mock = NoMock

Next ==
  \/ \E id \in CallIds, b \in InitialBalances : CreateAccount(id, b)
  \/ \E id \in CallIds : GetAccount(id)
  \/ \E w \in Callers, r \in Requests : Call(w, r)
  \/ \E w \in Workers : Begin(w)
  \/ \E w \in Workers : LockSource(w)
  \/ \E w \in Workers : LockDestination(w)
  \/ \E w \in Workers : UpdateSource(w)
  \/ \E w \in Workers : UpdateDestination(w)
  \/ \E w \in Workers : InsertRecord(w)
  \/ \E w \in Workers : Commit(w)
  \/ \E w \in Workers : StorageFault(w)
  \/ \E w \in Workers : DeadlockAbort(w)

Spec == Init /\ [][Next]_vars


--------------------------------------------------------------------------
(* Concurrent transfers on existing accounts, no storage faults *)

\* The steps of CreateTransaction when every statement reaches the store.
Step(w) ==
  \/ Begin(w)
  \/ LockSource(w)
  \/ LockDestination(w)
  \/ UpdateSource(w)
  \/ UpdateDestination(w)
  \/ InsertRecord(w)
  \/ Commit(w)

\* The state in which the callers of `active` have just called CreateTransaction
\* with the arguments `plan` on the accounts `acc`.
Started(acc, active, plan) ==
  /\ accounts = acc
  /\ transactions = <<>>
  /\ seq = 0
  /\ rowLock = [i \in Ids |-> NoTx]
  /\ pc = [w \in Workers |-> IF w \in active THEN "begin" ELSE "idle"]
  /\ req = [w \in Workers |-> IF w \in active THEN plan[w] ELSE NoReq]
  /\ sourceBalance = [w \in Workers |-> 0]
  /\ destinationBalance = [w \in Workers |-> 0]
  /\ txWrites = [w \in Workers |-> NoWrites]
  /\ txInsert = [w \in Workers |-> <<>>]
  /\ result = [w \in Workers |-> ""]
  /\ calls = MaxCalls
  /\ okCount = 0
  /\ lastRead = NoRead
  /\ handler = [w \in Workers |-> NoHandler]
  /\ db = MigratedDb
  /\ mock = NoMock

\* Whole balances a drained source may hold.
DrainBalances == {10, 20, 30}

\* Every caller moves the whole balance of account 1, to account 2 or to account 3.
InitDrain ==
  \E b \in DrainBalances : \E plan \in [Workers -> [source : {1}, destination : {2, 3}, amount : {b}]] :
    Started((1 :> b) @@ (2 :> 0) @@ (3 :> 20), Workers, plan)

NextDrain == \E w \in Workers : Step(w)

SpecDrain == InitDrain /\ [][NextDrain]_vars

\* The accounts of the transfers that share accounts: 1 and 2 exist, 3 does not.
SharedAccounts == (1 :> 20) @@ (2 :> 10)

\* Transfers that all touch account 1, in both directions.
SharedRequests ==
  { [source |-> 1, destination |-> 2, amount |-> 10],
    [source |-> 1, destination |-> 2, amount |-> 20],
    [source |-> 2, destination |-> 1, amount |-> 10],
    [source |-> 2, destination |-> 1, amount |-> 15],
    [source |-> 1, destination |-> 3, amount |-> 10],
    [source |-> 3, destination |-> 1, amount |-> 10] }

InitShared == \E plan \in [Workers -> SharedRequests] : Started(SharedAccounts, Workers, plan)

NextShared ==
  \/ \E w \in Workers : Step(w)
  \/ \E w \in Workers : DeadlockAbort(w)

SpecShared == InitShared /\ [][NextShared]_vars

\* The same, with every caller scheduled and the store granting a free lock and
\* running its deadlock detector.
SpecSharedFair ==
  /\ InitShared
  /\ [][NextShared]_vars
  /\ \A w \in Workers : WF_vars(Step(w) \/ DeadlockAbort(w))

\* Four accounts for two transfers with no account in common.
DisjointAccounts == (1 :> 20) @@ (2 :> 0) @@ (3 :> 10) @@ (4 :> 10)

\* Amounts of the two transfers.
DisjointAmounts == {4, 10, 15, 20, 30}

InitDisjoint ==
  \E a \in DisjointAmounts, b \in DisjointAmounts :
    Started(DisjointAccounts, {"w1", "w2"},
            [w \in Workers |-> IF w = "w1" THEN [source |-> 1, destination |-> 2, amount |-> a]
                               ELSE [source |-> 3, destination |-> 4, amount |-> b]])

NextDisjoint == \E w \in Workers : Step(w)

SpecDisjoint == InitDisjoint /\ [][NextDisjoint]_vars

--------------------------------------------------------------------------
(* Transfers to accounts whose balance is at the capacity of the column *)

\* Account 2 is one step of 0.00001 below the largest balance, account 3 is at it.
OverflowAccounts == (1 :> 20) @@ (2 :> ColumnMax - 10) @@ (3 :> ColumnMax)

OverflowRequests == [source : {1, 2}, destination : {2, 3}, amount : {10, 14, 15, 20}]

InitOverflow ==
  \E plan \in [Workers -> OverflowRequests] : Started(OverflowAccounts, {"w1", "w2"}, plan)

NextOverflow == \E w \in Workers : Step(w)

SpecOverflow == InitOverflow /\ [][NextOverflow]_vars

--------------------------------------------------------------------------
(* CreateTransaction called directly, with arguments no handler has validated *)

\* Accounts 1 and 2 exist, 3 and 4 do not.
EngineAccounts == (1 :> 20) @@ (2 :> 10)

\* Any source, any destination (the source itself included), any amount (zero and
\* negative included).
EngineRequests == [source : {1, 3}, destination : {1, 2, 4}, amount : {-10, 0, 10, 20, 21, 30}]

InitEngine ==
  \E plan \in [Workers -> EngineRequests] : Started(EngineAccounts, {"w1", "w2"}, plan)

NextEngine == \E w \in Workers : Step(w)

SpecEngine == InitEngine /\ [][NextEngine]_vars

--------------------------------------------------------------------------
(* The HTTP handlers *)

\* decimal.NewFromString on the strings the requests carry: the value, or an error.
ParseDecimal(str) ==
  CASE str = "0" -> [ok |-> TRUE, value |-> 0]
    [] str = "0.000004" -> [ok |-> TRUE, value |-> 4]
    [] str = "0.00001" -> [ok |-> TRUE, value |-> 10]
    [] str = "1e-5" -> [ok |-> TRUE, value |-> 10]
    [] str = "0.000015" -> [ok |-> TRUE, value |-> 15]
    [] str = "0.00002" -> [ok |-> TRUE, value |-> 20]
    [] str = "0.00003" -> [ok |-> TRUE, value |-> 30]
    [] str = "-0.00001" -> [ok |-> TRUE, value |-> -10]
    [] OTHER -> [ok |-> FALSE, value |-> 0]

\* strconv.ParseInt rejecting every id that is not positive.
ParseIntPositive(str) ==
  CASE str = "1" -> [ok |-> TRUE, value |-> 1]
    [] str = "2" -> [ok |-> TRUE, value |-> 2]
    [] str = "3" -> [ok |-> TRUE, value |-> 3]
    [] OTHER -> [ok |-> FALSE, value |-> 0]

\* strconv.ParseInt(accountIDStr, 10, 64) on the path segments the requests carry.
ParseInt(str) ==
  CASE str = "1" -> [ok |-> TRUE, value |-> 1]
    [] str = "2" -> [ok |-> TRUE, value |-> 2]
    [] str = "3" -> [ok |-> TRUE, value |-> 3]
    [] str = "0" -> [ok |-> TRUE, value |-> 0]
    [] str = "-1" -> [ok |-> TRUE, value |-> -1]
    [] OTHER -> [ok |-> FALSE, value |-> 0]

\* The response written by http.Error(w, message, status) or w.WriteHeader(status).
Respond(w, status, message) ==
  [handler EXCEPT ![w] = [handler[w] EXCEPT !.pc = "done", !.status = status, !.message = message]]

\* What Handler.CreateAccount answers before it reaches the repository ("" when it
\* goes on).
ValidateAccount(body) ==
  IF ~body.json THEN "Invalid request body"
  ELSE IF body.account_id <= 0 THEN "Account ID must be positive"
  ELSE IF ~ParseDecimal(body.initial_balance).ok THEN "Invalid initial balance format"
  ELSE IF ParseDecimal(body.initial_balance).value < 0 THEN "Initial balance cannot be negative"
  ELSE ""

\* Handler.CreateAccount up to the call of AccountExists.
HandlerCreateAccount(w, body) ==
  /\ handler[w].pc = "idle"
  /\ handler' = IF ValidateAccount(body) # ""
                  THEN Respond(w, 400, ValidateAccount(body))
                  ELSE [handler EXCEPT ![w] = [NoHandler EXCEPT !.pc = "exists",
                                                 !.id = body.account_id,
                                                 !.balance = ParseDecimal(body.initial_balance).value]]
  /\ UNCHANGED <<accounts, transactions, seq, rowLock, txVars, calls, okCount, lastRead, mock, db>>

\* An AccountExists that finds no row.
AccountExistsNever(id) == FALSE

\* AccountRepository.AccountExists: SELECT EXISTS(...) on the committed table.
AccountExists(id) == id \in DOMAIN accounts

\* Handler.CreateAccount: the AccountExists call and the 409 answer.
HandlerAccountExists(w) ==
  /\ handler[w].pc = "exists"
  /\ handler' = IF AccountExists(handler[w].id)
                  THEN Respond(w, 409, "Account already exists")
                  ELSE [handler EXCEPT ![w].pc = "insert"]
  /\ UNCHANGED <<accounts, transactions, seq, rowLock, txVars, calls, okCount, lastRead, mock, db>>

\* Handler.CreateAccount: the AccountRepository.CreateAccount call.  The INSERT
\* fails on a duplicate primary key and on CHECK (balance >= 0).
HandlerInsertAccount(w) ==
  /\ handler[w].pc = "insert"
  /\ IF handler[w].id \notin DOMAIN accounts /\ BalanceCheck(Round5(handler[w].balance))
          /\ Fits(Round5(handler[w].balance))
       THEN /\ accounts' = (handler[w].id :> Round5(handler[w].balance)) @@ accounts
            /\ handler' = Respond(w, 201, "")
       ELSE /\ accounts' = accounts
            /\ handler' = Respond(w, 500, "Failed to create account")
  /\ UNCHANGED <<transactions, seq, rowLock, txVars, calls, okCount, lastRead, mock, db>>

\* Handler.GetAccount: one call of AccountRepository.GetAccount.
HandlerGetAccount(w, accountIDStr) ==
  /\ handler[w].pc = "idle"
  /\ handler' =
       IF ~ParseInt(accountIDStr).ok THEN Respond(w, 400, "Invalid account ID")
       ELSE IF ~GetAccountResult(ParseInt(accountIDStr).value).found
         THEN Respond(w, 404, "Account not found")
         ELSE [Respond(w, 200, "") EXCEPT ![w].account = GetAccountResult(ParseInt(accountIDStr).value)]
  /\ UNCHANGED <<accounts, transactions, seq, rowLock, txVars, calls, okCount, lastRead, mock, db>>

\* Handler.CreateTransaction without the check that the two accounts differ.
ValidateTransactionSameAccount(body) ==
  IF ~body.json THEN "Invalid request body"
  ELSE IF body.source_account_id <= 0 \/ body.destination_account_id <= 0
    THEN "Account IDs must be positive"
  ELSE IF ~ParseDecimal(body.amount).ok THEN "Invalid amount format"
  ELSE IF ParseDecimal(body.amount).value <= 0 THEN "Amount must be positive"
  ELSE ""

\* What Handler.CreateTransaction answers before it reaches the repository ("" when
\* it goes on).
ValidateTransaction(body) ==
  IF ~body.json THEN "Invalid request body"
  ELSE IF body.source_account_id <= 0 \/ body.destination_account_id <= 0
    THEN "Account IDs must be positive"
  ELSE IF body.source_account_id = body.destination_account_id
    THEN "Source and destination accounts must be different"
  ELSE IF ~ParseDecimal(body.amount).ok THEN "Invalid amount format"
  ELSE IF ParseDecimal(body.amount).value <= 0 THEN "Amount must be positive"
  ELSE ""

\* Handler.CreateTransaction up to the call of TransactionRepository.CreateTransaction.
HandlerCreateTransaction(w, body) ==
  /\ handler[w].pc = "idle"
  /\ pc[w] = "idle"
  /\ IF ValidateTransaction(body) # ""
       THEN /\ handler' = Respond(w, 400, ValidateTransaction(body))
            /\ UNCHANGED <<pc, req, calls>>
       ELSE /\ handler' = [handler EXCEPT ![w].pc = "engine"]
            /\ pc' = [pc EXCEPT ![w] = "begin"]
            /\ req' = [req EXCEPT ![w] = [source |-> body.source_account_id,
                                          destination |-> body.destination_account_id,
                                          amount |-> ParseDecimal(body.amount).value]]
            /\ calls' = calls + 1
  /\ UNCHANGED <<accounts, transactions, seq, rowLock, sourceBalance, destinationBalance,
                 txWrites, txInsert, result, okCount, lastRead, mock, db>>

\* The texts of the errors the database driver reports.
StorageErrorTexts == {"connection reset", "deadlock detected"}

\* err.Error() of what CreateTransaction returned: the three errors.New texts as
\* they are, every other error as fmt.Errorf("...: %w", err) prints it.
ErrorString(msg, text) ==
  IF msg \in {"source account not found", "destination account not found", "insufficient balance"}
    THEN msg
    ELSE msg \o ": " \o text

\* (mutant: every error is answered 500)
TransactionResponseAll500(err) ==
  IF err = "ok" THEN [status |-> 201, message |-> ""]
  ELSE [status |-> 500, message |-> "Failed to process transaction"]

\* (mutant: the default case writes err.Error() to the response)
TransactionResponseLeak(err) ==
  CASE err = "ok" -> [status |-> 201, message |-> ""]
    [] err = "source account not found" -> [status |-> 404, message |-> "Source account not found"]
    [] err = "destination account not found" -> [status |-> 404, message |-> "Destination account not found"]
    [] err = "insufficient balance" -> [status |-> 400, message |-> "Insufficient balance"]
    [] OTHER -> [status |-> 500, message |-> err]

\* Handler.CreateTransaction: the switch on err.Error() ("ok" for nil).
TransactionResponse(err) ==
  CASE err = "ok" -> [status |-> 201, message |-> ""]
    [] err = "source account not found" -> [status |-> 404, message |-> "Source account not found"]
    [] err = "destination account not found" -> [status |-> 404, message |-> "Destination account not found"]
    [] err = "insufficient balance" -> [status |-> 400, message |-> "Insufficient balance"]
    [] OTHER -> [status |-> 500, message |-> "Failed to process transaction"]

\* Handler.CreateTransaction: the answer to what CreateTransaction returned.  The
\* text of a storage error is whatever the driver reported.
HandlerTransactionResponse(w) ==
  /\ handler[w].pc = "engine"
  /\ pc[w] = "done"
  /\ \E text \in StorageErrorTexts :
       LET err == IF result[w] = "ok" THEN "ok" ELSE ErrorString(result[w], text)
       IN handler' = Respond(w, TransactionResponse(err).status, TransactionResponse(err).message)
  /\ UNCHANGED <<accounts, transactions, seq, rowLock, txVars, calls, okCount, lastRead, mock, db>>

\* The callers that send requests.
Clients == {"w1", "w2"}

\* The accounts present when the requests arrive.
HttpAccounts == (1 :> 20) @@ (2 :> 0)

\* The bodies of POST /accounts.
AccountBodies ==
  [json : {TRUE}, account_id : {-1, 0, 1, 3},
   initial_balance : {"0", "0.00002", "0.000015", "0.000004", "1e-5", "-0.00001", "abc", ""}]
    \cup [json : {FALSE}, account_id : {0}, initial_balance : {""}]

\* The path segments of GET /accounts/{account_id}.
AccountIDStrs == {"1", "2", "3", "0", "-1", "abc"}

\* The bodies of POST /transactions.
TransactionBodies ==
  [json : {TRUE}, source_account_id : {0, 1, 3}, destination_account_id : {0, 1, 2, 3},
   amount : {"0.00001", "0.00003", "0.000015", "0.000004", "1e-5", "0", "-0.00001", "abc"}]
    \cup [json : {FALSE}, source_account_id : {0}, destination_account_id : {0}, amount : {""}]

InitHttp == \E plan \in [Workers -> {NoReq}] : Started(HttpAccounts, {}, plan)

NextHttp ==
  \E w \in Clients :
    \/ \E body \in AccountBodies : HandlerCreateAccount(w, body)
    \/ HandlerAccountExists(w)
    \/ HandlerInsertAccount(w)
    \/ \E accountIDStr \in AccountIDStrs : HandlerGetAccount(w, accountIDStr)
    \/ \E body \in TransactionBodies : HandlerCreateTransaction(w, body)
    \/ Step(w)
    \/ HandlerTransactionResponse(w)

SpecHttp == InitHttp /\ [][NextHttp]_vars

\* Handler.CreateAccount when AccountExists or the INSERT fails in the storage layer.
HandlerAccountFault(w) ==
  /\ handler[w].pc \in {"exists", "insert"}
  /\ handler' = IF handler[w].pc = "exists"
                  THEN Respond(w, 500, "Internal server error")
                  ELSE Respond(w, 500, "Failed to create account")
  /\ UNCHANGED <<accounts, transactions, seq, rowLock, txVars, calls, okCount, lastRead, mock, db>>

\* Handler.GetAccount when the SELECT fails in the storage layer.
HandlerGetAccountFault(w, accountIDStr) ==
  /\ handler[w].pc = "idle"
  /\ ParseInt(accountIDStr).ok
  /\ handler' = Respond(w, 500, "Internal server error")
  /\ UNCHANGED <<accounts, transactions, seq, rowLock, txVars, calls, okCount, lastRead, mock, db>>

\* The handlers when statements may fail in the storage layer.
NextHttpFault ==
  \/ NextHttp
  \/ \E w \in Clients :
       \/ StorageFault(w)
       \/ HandlerAccountFault(w)
       \/ \E accountIDStr \in AccountIDStrs : HandlerGetAccountFault(w, accountIDStr)

SpecHttpFault == InitHttp /\ [][NextHttpFault]_vars

--------------------------------------------------------------------------
(* The repositories on a handle that is open, closed or absent *)

\* The states of the *sql.DB a repository is constructed with: open, closed by
\* db.Close(), or absent (NewAccountRepository(nil)).
Handles == {"open", "closed", "absent"}

\* How a repository call ends on handle h when the statement, once it reaches the
\* store, would end with `ended`: a method of a nil *sql.DB dereferences it and
\* panics, a closed one returns "sql: database is closed".
EndOfCall(h, ended) ==
  CASE h = "absent" -> "panic"
    [] h = "closed" -> "error"
    [] OTHER -> ended

\* AccountRepository.CreateAccount(id, initialBalance) on the handle.
RepoCreateAccount(id, initialBalance) ==
  LET inserts == id \notin DOMAIN accounts /\ BalanceCheck(Round5(initialBalance))
                   /\ Fits(Round5(initialBalance))
  IN /\ db' = [db EXCEPT !.outcome = EndOfCall(db.handle, IF inserts THEN "value" ELSE "error")]
     /\ accounts' = IF db.handle = "open" /\ inserts
                      THEN (id :> Round5(initialBalance)) @@ accounts
                      ELSE accounts
     /\ UNCHANGED <<transactions, seq, rowLock, txVars, calls, okCount, lastRead, mock, handler>>

\* AccountRepository.GetAccount(id) on the handle.
RepoGetAccount(id) ==
  /\ db' = [db EXCEPT !.outcome =
              EndOfCall(db.handle, IF GetAccountResult(id).found THEN "value" ELSE "error")]
  /\ lastRead' = IF db.handle = "open" THEN GetAccountResult(id) ELSE lastRead
  /\ UNCHANGED <<accounts, transactions, seq, rowLock, txVars, calls, okCount, mock, handler>>

\* AccountRepository.AccountExists(id) on the handle.
RepoAccountExists(id) ==
  /\ db' = [db EXCEPT !.outcome = EndOfCall(db.handle, "value")]
  /\ UNCHANGED <<accounts, transactions, seq, rowLock, txVars, calls, okCount, lastRead, mock, handler>>

\* r.db.Begin() of CreateTransaction on the handle.
BeginOnHandle(w) ==
  /\ pc[w] = "begin"
  /\ CASE db.handle = "open" -> Begin(w)
       [] db.handle = "closed" -> StorageFault(w)
       [] OTHER ->
            /\ pc' = [pc EXCEPT ![w] = "done"]
            /\ db' = [db EXCEPT !.outcome = "panic"]
            /\ UNCHANGED <<accounts, transactions, seq, rowLock, req, sourceBalance,
                           destinationBalance, txWrites, txInsert, result, calls, okCount,
                           lastRead, mock, handler>>

\* The HTTP methods of the requests.
Methods == {"GET", "POST", "DELETE"}

\* (mutant: the health check asks the store)
HealthResponsePing(method, h) ==
  IF h = "open" THEN [status |-> 200, message |-> "{\"status\":\"healthy\"}"]
  ELSE [status |-> 503, message |-> "{\"status\":\"unhealthy\"}"]

\* What Handler.HealthCheck writes: it reads neither the request nor the handler.
HealthResponse(method, h) == [status |-> 200, message |-> "{\"status\":\"healthy\"}"]

\* Handler.HealthCheck, on a handler whose repositories hold the handle (none when
\* the handle is absent).
HandlerHealthCheck(w, method) ==
  /\ handler[w].pc \in {"idle", "done"}
  /\ handler' = Respond(w, HealthResponse(method, db.handle).status,
                        HealthResponse(method, db.handle).message)
  /\ UNCHANGED <<accounts, transactions, seq, rowLock, txVars, calls, okCount, lastRead, mock, db>>

\* The tables of EngineAccounts behind a handle in state h, no call made yet.
InitHandle ==
  /\ accounts = EngineAccounts
  /\ transactions = <<>>
  /\ seq = 0
  /\ rowLock = [i \in Ids |-> NoTx]
  /\ pc = [w \in Workers |-> "idle"]
  /\ req = [w \in Workers |-> NoReq]
  /\ sourceBalance = [w \in Workers |-> 0]
  /\ destinationBalance = [w \in Workers |-> 0]
  /\ txWrites = [w \in Workers |-> NoWrites]
  /\ txInsert = [w \in Workers |-> <<>>]
  /\ result = [w \in Workers |-> ""]
  /\ calls = 0
  /\ okCount = 0
  /\ lastRead = NoRead
  /\ handler = [w \in Workers |-> NoHandler]
  /\ \E h \in Handles : db = [MigratedDb EXCEPT !.handle = h]
  /\ mock = NoMock

NextHandle ==
  \/ \E id \in {1, 3}, initialBalance \in InitialBalances : RepoCreateAccount(id, initialBalance)
  \/ \E id \in {1, 3} : RepoGetAccount(id)
  \/ \E id \in {1, 3} : RepoAccountExists(id)
  \/ \E w \in Clients, method \in Methods : HandlerHealthCheck(w, method)
  \/ \E r \in Requests : Call("w1", r)
  \/ BeginOnHandle("w1")
  \/ LockSource("w1")
  \/ LockDestination("w1")
  \/ UpdateSource("w1")
  \/ UpdateDestination("w1")
  \/ InsertRecord("w1")
  \/ Commit("w1")

SpecHandle == InitHandle /\ [][NextHandle]_vars

--------------------------------------------------------------------------
(* Migrate *)

\* (mutant: CREATE without IF NOT EXISTS fails on an object that exists)
CreateStrict(schema, object) ==
  IF object \in schema
    THEN [ok |-> FALSE, schema |-> schema]
    ELSE [ok |-> TRUE, schema |-> schema \cup {object}]

\* CREATE TABLE / CREATE INDEX IF NOT EXISTS: an object that exists is left as it
\* is.  The transactions table references accounts, the indexes are on transactions.
CreateIfNotExists(schema, object) ==
  IF \/ object = "transactions" /\ "accounts" \notin schema
     \/ object = "indexes" /\ "transactions" \notin schema
    THEN [ok |-> FALSE, schema |-> schema]
    ELSE [ok |-> TRUE, schema |-> schema \cup {object}]

\* (mutant: the error names the loop index)
MigrationErrorZeroBased(i) == "failed to run migration " \o ToString(i)

\* fmt.Errorf("failed to run migration %d: %w", i+1, err)
MigrationError(i) == "failed to run migration " \o ToString(i + 1)

\* Migrate(db) is called: at start-up, before any request is served.
MigrateCall ==
  /\ ~db.migrating
  /\ db.runs < MaxRuns
  /\ \A w \in Workers : pc[w] \in {"idle", "done"}
  /\ db' = [db EXCEPT !.migrating = TRUE, !.i = 0, !.runs = @ + 1, !.error = ""]
  /\ UNCHANGED <<accounts, transactions, seq, rowLock, txVars, calls, okCount, lastRead, mock, handler>>

\* One turn of the loop, db.Exec(migration) reaching the store: the next turn, or
\* return nil after the last, or the error of a refused statement.
MigrateExec ==
  /\ db.migrating
  /\ LET exec == CreateIfNotExists(db.schema, Migrations[db.i + 1])
     IN db' = IF ~exec.ok
                THEN [db EXCEPT !.migrating = FALSE, !.error = MigrationError(db.i)]
              ELSE IF db.i + 1 = Len(Migrations)
                THEN [db EXCEPT !.schema = exec.schema, !.migrating = FALSE, !.error = "nil"]
              ELSE [db EXCEPT !.schema = exec.schema, !.i = @ + 1]
  /\ UNCHANGED <<accounts, transactions, seq, rowLock, txVars, calls, okCount, lastRead, mock, handler>>

\* db.Exec(migration) fails in the storage layer: Migrate returns at once.
MigrateFault ==
  /\ db.migrating
  /\ db' = [db EXCEPT !.migrating = FALSE, !.error = MigrationError(db.i)]
  /\ UNCHANGED <<accounts, transactions, seq, rowLock, txVars, calls, okCount, lastRead, mock, handler>>

\* The service answers requests once Migrate has returned nil (initializeApp).
Serving == ~db.migrating /\ db.error = "nil"

\* A database with no schema, before the first Migrate.
InitMigrate ==
  /\ accounts = [i \in {} |-> 0]
  /\ transactions = <<>>
  /\ seq = 0
  /\ rowLock = [i \in Ids |-> NoTx]
  /\ pc = [w \in Workers |-> "idle"]
  /\ req = [w \in Workers |-> NoReq]
  /\ sourceBalance = [w \in Workers |-> 0]
  /\ destinationBalance = [w \in Workers |-> 0]
  /\ txWrites = [w \in Workers |-> NoWrites]
  /\ txInsert = [w \in Workers |-> <<>>]
  /\ result = [w \in Workers |-> ""]
  /\ calls = 0
  /\ okCount = 0
  /\ lastRead = NoRead
  /\ handler = [w \in Workers |-> NoHandler]
  /\ db = [MigratedDb EXCEPT !.schema = {}, !.runs = 0, !.error = ""]
  /\ mock = NoMock

\* What the service does between two runs of Migrate.
ServeStep ==
  /\ Serving
  /\ \/ \E id \in CallIds, initialBalance \in InitialBalances : CreateAccount(id, initialBalance)
     \/ \E r \in Requests : Call("w1", r)
     \/ Step("w1")

\* Migrate with every statement reaching the store.
NextMigrateAgain ==
  \/ MigrateCall
  \/ MigrateExec
  \/ ServeStep

SpecMigrateAgain == InitMigrate /\ [][NextMigrateAgain]_vars

\* Migrate with statements that may fail in the storage layer.
NextMigrate ==
  \/ NextMigrateAgain
  \/ MigrateFault

SpecMigrate == InitMigrate /\ [][NextMigrate]_vars

--------------------------------------------------------------------------
(* CreateTransaction run alone, as a function of the tables *)

\* A state of the tables and the results returned so far.
Tables(acc, rows, sq, res) == [accounts |-> acc, transactions |-> rows, seq |-> sq, results |-> res]

\* CreateTransaction(r) by caller w, run from start to return on tables t with no
\* other transaction running.
RunAlone(t, w, r) ==
  LET acc == t.accounts
      s == r.source
      d == r.destination
      fail(msg, sq) == Tables(acc, t.transactions, sq, (w :> msg) @@ t.results)
  IN IF s \notin DOMAIN acc THEN fail("source account not found", t.seq)
     ELSE IF LessThan(acc[s], r.amount) THEN fail("insufficient balance", t.seq)
     ELSE IF d \notin DOMAIN acc THEN fail("destination account not found", t.seq)
     ELSE LET newS == Round5(acc[s] - r.amount)
              acc1 == [acc EXCEPT ![s] = newS]
              newD == Round5(acc1[d] + r.amount)
              acc2 == [acc1 EXCEPT ![d] = newD]
          IN IF ~(BalanceCheck(newS) /\ Fits(newS)) THEN fail("failed to update source account", t.seq)
             ELSE IF ~(BalanceCheck(newD) /\ Fits(newD)) THEN fail("failed to update destination account", t.seq)
             ELSE IF ~(AmountCheck(Round5(r.amount)) /\ Fits(Round5(r.amount)) /\ DistinctCheck(s, d))
               THEN fail("failed to create transaction record", t.seq + 1)
             ELSE Tables(acc2,
                         Append(t.transactions, [id |-> t.seq + 1, source |-> s, destination |-> d,
                                                 amount |-> Round5(r.amount)]),
                         t.seq + 1, (w :> "ok") @@ t.results)

\* The calls of the callers order[1], order[2], ... run one at a time, in that order.
RECURSIVE RunInOrder(_, _, _)
RunInOrder(t, order, plan) ==
  IF order = <<>> THEN t
  ELSE RunInOrder(RunAlone(t, Head(order), plan[Head(order)]), Tail(order), plan)

\* All orders of the callers in S.
Orders(S) == {o \in [1..Cardinality(S) -> S] : \A i, j \in 1..Cardinality(S) : o[i] = o[j] => i = j}

--------------------------------------------------------------------------
(* The in-memory repositories of the handler tests *)

\* MockAccountRepository.CreateAccount on the map acc.
MockCreateAccount(acc, id, initialBalance) ==
  IF id \in DOMAIN acc THEN [accounts |-> acc, err |-> "account already exists"]
  ELSE [accounts |-> (id :> initialBalance) @@ acc, err |-> "ok"]

\* The checks of MockTransactionRepository.CreateTransaction, in its order: source,
\* destination, balance.
MockCheck(acc, r) ==
  IF r.source \notin DOMAIN acc THEN "source account not found"
  ELSE IF r.destination \notin DOMAIN acc THEN "destination account not found"
  ELSE IF LessThan(acc[r.source], r.amount) THEN "insufficient balance"
  ELSE "ok"

\* sourceAccount.Balance = sourceAccount.Balance.Sub(amount)
MockDebit(acc, r) == [acc EXCEPT ![r.source] = @ - r.amount]

\* accounts[destinationAccountID].Balance = accounts[destinationAccountID].Balance.Add(amount)
MockCredit(acc, r) == [acc EXCEPT ![r.destination] = @ + r.amount]

\* MockTransactionRepository.CreateTransaction on the map acc, from Lock to Unlock.
MockCreateTransaction(acc, r) ==
  IF MockCheck(acc, r) # "ok" THEN [accounts |-> acc, err |-> MockCheck(acc, r)]
  ELSE [accounts |-> MockCredit(MockDebit(acc, r), r), err |-> "ok"]

\* The same calls made on both implementations, one call at a time.  Accounts 1
\* and 2 exist in both, accounts 3 and 4 in neither.
PairAccounts == (1 :> 20) @@ (2 :> 10)
PairIds == {1, 3, 4}
PairBalances == {-10, 0, 15, 20}
PairRequests == [source : {1, 2, 3}, destination : {1, 2, 3}, amount : {10, 15, 30}]

InitPair ==
  /\ accounts = PairAccounts
  /\ transactions = <<>>
  /\ seq = 0
  /\ rowLock = [i \in Ids |-> NoTx]
  /\ pc = [w \in Workers |-> "idle"]
  /\ req = [w \in Workers |-> NoReq]
  /\ sourceBalance = [w \in Workers |-> 0]
  /\ destinationBalance = [w \in Workers |-> 0]
  /\ txWrites = [w \in Workers |-> NoWrites]
  /\ txInsert = [w \in Workers |-> <<>>]
  /\ result = [w \in Workers |-> ""]
  /\ calls = 0
  /\ okCount = 0
  /\ lastRead = NoRead
  /\ handler = [w \in Workers |-> NoHandler]
  /\ mock = [NoMock EXCEPT !.accounts = PairAccounts]
  /\ db = MigratedDb

\* CreateAccount(id, initialBalance) on the storage-backed repository and on the
\* mock.
PairCreateAccount(id, initialBalance) ==
  /\ calls < MaxCalls
  /\ calls' = calls + 1
  /\ LET inserts == /\ id \notin DOMAIN accounts
                    /\ BalanceCheck(Round5(initialBalance))
                    /\ Fits(Round5(initialBalance))
         m == MockCreateAccount(mock.accounts, id, initialBalance)
     IN /\ accounts' = IF inserts THEN (id :> Round5(initialBalance)) @@ accounts ELSE accounts
        /\ result' = [result EXCEPT !["w1"] = IF inserts THEN "ok" ELSE "failed to create account"]
        /\ mock' = [mock EXCEPT !.accounts = m.accounts, !.result["w1"] = m.err]
  /\ UNCHANGED <<transactions, seq, rowLock, pc, req, sourceBalance, destinationBalance,
                 txWrites, txInsert, okCount, lastRead, handler, db>>

\* CreateTransaction(r) on the storage-backed repository and on the mock.
PairCreateTransaction(r) ==
  /\ calls < MaxCalls
  /\ calls' = calls + 1
  /\ LET t == RunAlone(Tables(accounts, transactions, seq, result), "w1", r)
         m == MockCreateTransaction(mock.accounts, r)
     IN /\ accounts' = t.accounts
        /\ transactions' = t.transactions
        /\ seq' = t.seq
        /\ result' = [result EXCEPT !["w1"] = t.results["w1"]]
        /\ mock' = [mock EXCEPT !.accounts = m.accounts, !.result["w1"] = m.err]
  /\ UNCHANGED <<rowLock, pc, req, sourceBalance, destinationBalance,
                 txWrites, txInsert, okCount, lastRead, handler, db>>

NextPair ==
  \/ \E id \in PairIds, b \in PairBalances : PairCreateAccount(id, b)
  \/ \E r \in PairRequests : PairCreateTransaction(r)

SpecPair == InitPair /\ [][NextPair]_vars

\* Handler requests running concurrently against the mock repositories.
RaceAccounts == (1 :> 20) @@ (2 :> 10)
RaceIds == {1, 2, 3}
RaceRequests == [source : {1, 2}, destination : {1, 2, 3}, amount : {10, 30}]

InitRace ==
  /\ accounts = [i \in {} |-> 0]
  /\ transactions = <<>>
  /\ seq = 0
  /\ rowLock = [i \in Ids |-> NoTx]
  /\ pc = [w \in Workers |-> "idle"]
  /\ req = [w \in Workers |-> NoReq]
  /\ sourceBalance = [w \in Workers |-> 0]
  /\ destinationBalance = [w \in Workers |-> 0]
  /\ txWrites = [w \in Workers |-> NoWrites]
  /\ txInsert = [w \in Workers |-> <<>>]
  /\ result = [w \in Workers |-> ""]
  /\ calls = 0
  /\ okCount = 0
  /\ lastRead = NoRead
  /\ handler = [w \in Workers |-> NoHandler]
  /\ mock = [NoMock EXCEPT !.accounts = RaceAccounts]
  /\ db = MigratedDb

\* Handler.GetAccount calls MockAccountRepository.GetAccount: m.mu.RLock().
MockRLock(w, id) ==
  /\ mock.pc[w] = "idle"
  /\ mock.writer = NoTx
  /\ mock' = [mock EXCEPT !.readers = @ \cup {w}, !.pc[w] = "lookup", !.id[w] = id]
  /\ UNCHANGED <<accounts, transactions, seq, rowLock, txVars, calls, okCount, lastRead,
                 handler, db>>

\* MockAccountRepository.GetAccount: the map lookup, the deferred m.mu.RUnlock()
\* and the return of the stored pointer (or "account not found").
MockGetAccount(w) ==
  /\ mock.pc[w] = "lookup"
  /\ mock' = IF mock.id[w] \in DOMAIN mock.accounts
               THEN [mock EXCEPT !.readers = @ \ {w}, !.pc[w] = "read", !.ptr[w] = mock.id[w]]
               ELSE [mock EXCEPT !.readers = @ \ {w}, !.pc[w] = "done",
                                 !.result[w] = "account not found"]
  /\ UNCHANGED <<accounts, transactions, seq, rowLock, txVars, calls, okCount, lastRead,
                 handler, db>>

\* account i is being written by caller v: v is inside CreateTransaction, about to
\* assign i's Balance.
Writing(v, i) ==
  \/ mock.pc[v] = "writeSrc" /\ mock.req[v].source = i
  \/ mock.pc[v] = "writeDst" /\ mock.req[v].destination = i

\* The values a read of account i's Balance can return: the stored one, and, when
\* the read is not ordered with a write in progress, the one being written.
Observable(i) ==
  {mock.accounts[i]}
    \cup {MockDebit(mock.accounts, mock.req[v])[i] :
            v \in {u \in Workers : mock.pc[u] = "writeSrc" /\ mock.req[u].source = i}}
    \cup {MockCredit(mock.accounts, mock.req[v])[i] :
            v \in {u \in Workers : mock.pc[u] = "writeDst" /\ mock.req[u].destination = i}}

\* Handler.GetAccount: account.Balance.String() on the pointer it was given, with
\* no lock held.
MockReadBalance(w) ==
  /\ mock.pc[w] = "read"
  /\ \E b \in Observable(mock.ptr[w]) :
       mock' = [mock EXCEPT !.pc[w] = "done", !.balance[w] = b, !.result[w] = "ok"]
  /\ UNCHANGED <<accounts, transactions, seq, rowLock, txVars, calls, okCount, lastRead,
                 handler, db>>

\* Handler.CreateTransaction calls MockTransactionRepository.CreateTransaction:
\* m.accountRepo.mu.Lock().
MockLock(w, r) ==
  /\ mock.pc[w] = "idle"
  /\ mock.writer = NoTx /\ mock.readers = {}
  /\ mock' = [mock EXCEPT !.writer = w, !.pc[w] = "check", !.req[w] = r]
  /\ UNCHANGED <<accounts, transactions, seq, rowLock, txVars, calls, okCount, lastRead,
                 handler, db>>

\* The three checks; an error return runs the deferred Unlock.
MockChecks(w) ==
  /\ mock.pc[w] = "check"
  /\ mock' = IF MockCheck(mock.accounts, mock.req[w]) = "ok"
               THEN [mock EXCEPT !.pc[w] = "writeSrc"]
               ELSE [mock EXCEPT !.pc[w] = "done", !.writer = NoTx,
                                 !.result[w] = MockCheck(mock.accounts, mock.req[w])]
  /\ UNCHANGED <<accounts, transactions, seq, rowLock, txVars, calls, okCount, lastRead,
                 handler, db>>

\* The assignment to the source account's Balance.
MockWriteSource(w) ==
  /\ mock.pc[w] = "writeSrc"
  /\ mock' = [mock EXCEPT !.accounts = MockDebit(mock.accounts, mock.req[w]),
                          !.pc[w] = "writeDst"]
  /\ UNCHANGED <<accounts, transactions, seq, rowLock, txVars, calls, okCount, lastRead,
                 handler, db>>

\* The assignment to the destination account's Balance, return nil and the
\* deferred Unlock.
MockWriteDestination(w) ==
  /\ mock.pc[w] = "writeDst"
  /\ mock' = [mock EXCEPT !.accounts = MockCredit(mock.accounts, mock.req[w]),
                          !.pc[w] = "done", !.writer = NoTx, !.result[w] = "ok"]
  /\ UNCHANGED <<accounts, transactions, seq, rowLock, txVars, calls, okCount, lastRead,
                 handler, db>>

NextRace ==
  \/ \E w \in Workers, id \in RaceIds : MockRLock(w, id)
  \/ \E w \in Workers : MockGetAccount(w)
  \/ \E w \in Workers : MockReadBalance(w)
  \/ \E w \in Workers, r \in RaceRequests : MockLock(w, r)
  \/ \E w \in Workers : MockChecks(w)
  \/ \E w \in Workers : MockWriteSource(w)
  \/ \E w \in Workers : MockWriteDestination(w)

SpecRace == InitRace /\ [][NextRace]_vars

--------------------------------------------------------------------------
(* Properties *)

\* This step is the return of w's call with an error.
FailedReturn(w) == pc[w] \notin {"idle", "done"} /\ pc'[w] = "done" /\ result'[w] # "ok"

\* This step is the return of w's call with nil.
OkReturn(w) == pc[w] = "commit" /\ pc'[w] = "done" /\ result'[w] = "ok"

\* This step inserts one account row and changes nothing else in the tables.
AccountInserted ==
  /\ transactions' = transactions
  /\ \E id \in Ids \ DOMAIN accounts :
       /\ DOMAIN accounts' = DOMAIN accounts \cup {id}
       /\ \A i \in DOMAIN accounts : accounts'[i] = accounts[i]

\* C1: in every reachable state every committed balance, every balance a GetAccount
\* would return or has returned, and every uncommitted row version of a transfer in
\* flight is >= 0.
C1_NonNegative ==
  /\ \A id \in DOMAIN accounts :
       /\ accounts[id] >= 0
       /\ GetAccountResult(id).balance >= 0
       /\ \A w \in Workers : Visible(w, id) >= 0
  /\ lastRead.balance >= 0

\* C1 witness: a reader has read the source of a transfer in flight that has already
\* debited the whole balance in its own uncommitted row version.
C1_Witness ==
  \E w \in Workers :
    /\ pc[w] \in {"updDst", "insert", "commit"}
    /\ Visible(w, req[w].source) = 0
    /\ lastRead = GetAccountResult(req[w].source)
    /\ lastRead.found /\ lastRead.balance > 0

\* C2 (as claimed): every successful transfer of amount a leaves the source at exactly
\* balance - a and the destination at exactly balance + a.
C2_ExactTransfer ==
  [][\A w \in Workers : OkReturn(w) =>
        /\ accounts'[req[w].source] = accounts[req[w].source] - req[w].amount
        /\ accounts'[req[w].destination] = accounts[req[w].destination] + req[w].amount]_vars

\* C2 (as claimed, the sum): a successful transfer leaves the sum of the two balances
\* unchanged.
C2_SumPreserved ==
  [][\A w \in Workers : OkReturn(w) =>
        accounts'[req[w].source] + accounts'[req[w].destination]
          = accounts[req[w].source] + accounts[req[w].destination]]_vars

\* C3: a call that returns an error changes no committed balance and no committed
\* record, neither in the step that returns nor in any earlier step of the call: the
\* committed tables change only by an account insert or by the commit of a call that
\* returns nil, so a read after the failed call returns what it returned before.
C3_FailureChangesNothing ==
  [][/\ \A w \in Workers : FailedReturn(w) =>
          /\ accounts' = accounts
          /\ transactions' = transactions
          /\ \A id \in DOMAIN accounts : GetAccountResult(id)' = GetAccountResult(id)
     /\ (accounts' # accounts \/ transactions' # transactions) =>
          (AccountInserted \/ \E w \in Workers : OkReturn(w))]_vars

\* C3 witness: a call has failed at commit, after both updates and the insert, and
\* its source still has the balance that made the transfer possible.
C3_Witness ==
  \E w \in Workers :
    /\ pc[w] = "done"
    /\ result[w] \in {"failed to commit transaction", "failed to create transaction record"}
    /\ req[w].destination \in DOMAIN accounts
    /\ accounts[req[w].source] >= req[w].amount
    /\ transactions = <<>>

\* The row the INSERT of w's call stores.
RecordOf(w, id) ==
  [id |-> id, source |-> req[w].source, destination |-> req[w].destination,
   amount |-> Round5(req[w].amount)]

\* The accounts table with the debit and the credit of w's call applied.
Applied(w) ==
  [i \in DOMAIN accounts |->
     IF i = req[w].source THEN Round5(accounts[i] - req[w].amount)
     ELSE IF i = req[w].destination THEN Round5(accounts[i] + req[w].amount)
     ELSE accounts[i]]

\* C5: the number of transfer records is the number of calls that returned nil; a
\* record appears only in the step in which a call returns nil, which appends exactly
\* one record of that call and applies its debit and credit; a balance of an existing
\* account changes only in such a step.
C5_RecordIffApplied ==
  /\ [](Len(transactions) = okCount)
  /\ [][/\ \A w \in Workers : OkReturn(w) =>
             /\ \E id \in 1..seq : transactions' = Append(transactions, RecordOf(w, id))
             /\ accounts' = Applied(w)
        /\ transactions' # transactions => \E w \in Workers : OkReturn(w)
        /\ (\E i \in DOMAIN accounts : accounts'[i] # accounts[i]) =>
             Len(transactions') = Len(transactions) + 1]_vars

\* C5 witness: the same request succeeded twice, and there are two records of it.
C5_Witness ==
  /\ okCount = 2
  /\ Len(transactions) = 2
  /\ transactions[1].source = transactions[2].source
  /\ transactions[1].destination = transactions[2].destination
  /\ transactions[1].amount = transactions[2].amount
  /\ transactions[1].id # transactions[2].id

\* C6: while a transfer holds the lock on a row, GetAccount returns for that row the
\* balance the transfer found when it locked it (the pre-transfer balance), whatever
\* the transfer has written so far; and no record of a transfer in flight is among
\* the committed records.
C6_ReadsCommitted ==
  /\ \A id \in DOMAIN accounts : \A w \in Workers :
       rowLock[id] = w => GetAccountResult(id).balance = LockedBalance(w, id)
  /\ \A w \in Workers : \A i \in 1..Len(txInsert[w]) : \A j \in 1..Len(transactions) :
       transactions[j].id # txInsert[w][i].id

\* C6 witness: a transfer in flight has written a new balance for a row, and a reader
\* has read that row and got the other, committed, balance.
C6_Witness ==
  \E w \in Workers : \E id \in DOMAIN txWrites[w] :
    /\ txWrites[w][id] # accounts[id]
    /\ lastRead = GetAccountResult(id)
    /\ lastRead.balance = LockedBalance(w, id)
    /\ Len(txInsert[w]) = 1

\* Every caller has returned.
AllDone == \A w \in Workers : pc[w] = "done"

\* The callers whose call returned nil.
Succeeded == {w \in Workers : pc[w] = "done" /\ result[w] = "ok"}

\* C4: of the concurrent transfers that each move the whole balance of the same
\* source, never more than one has succeeded, and when all have returned exactly one
\* has succeeded and every other one has failed with "insufficient balance".
C4_OneWinner ==
  /\ Cardinality(Succeeded) <= 1
  /\ okCount <= 1
  /\ AllDone =>
       /\ Cardinality(Succeeded) = 1
       /\ \A w \in Workers \ Succeeded : result[w] = "insufficient balance"
       /\ accounts[1] = 0

\* C4 witness: all three transfers have returned, one with nil, after the losers
\* had already asked for the lock while the winner was in flight.
C4_Witness ==
  /\ AllDone
  /\ Cardinality(Succeeded) = 1
  /\ Cardinality({w \in Workers : result[w] = "insufficient balance"}) = 2
  /\ Len(transactions) = 1

\* The callers the deadlock detector aborted.
Victims == {w \in Workers : pc[w] = "done" /\ result[w] = "failed to get destination account"}

\* The tables and results now are those of the calls of S run one at a time in some
\* order (the callers outside S left no trace in the tables).
SerialOutcome(S) ==
  \E o \in Orders(S) :
    LET t == RunInOrder(Tables(SharedAccounts, <<>>, 0, [w \in {} |-> ""]), o, req)
    IN /\ accounts = t.accounts
       /\ transactions = t.transactions
       /\ seq = t.seq
       /\ \A w \in S : result[w] = t.results[w]

\* C7 (as claimed): when all the transfers have returned, results, balances and
\* records are those of running all of them one at a time in some order.
C7_Serializable_AsClaimed == AllDone => SerialOutcome(Workers)

\* C7 (amended): when all the transfers have returned, the transfers the deadlock
\* detector aborted have returned a storage error, and results, balances and records
\* are those of running the other transfers one at a time in some order.
C7_SerializableButVictims == AllDone => SerialOutcome(Workers \ Victims)

\* C7 witness: three transfers sharing account 1 have all returned, two with nil,
\* one of them in the direction opposite to the other.
C7_Witness ==
  /\ AllDone
  /\ \E w, v \in Succeeded : req[w].source = req[v].destination /\ req[v].source = req[w].destination
  /\ Victims = {}

\* w waits for a lock that another transaction holds.
Blocked(w) ==
  \/ pc[w] = "lockSrc" /\ req[w].source \in DOMAIN accounts /\ ~RowFree(w, req[w].source)
  \/ pc[w] = "lockDst" /\ req[w].destination \in DOMAIN accounts /\ ~RowFree(w, req[w].destination)

\* The committed records without their ids.
RecordSet(rows) == {[source |-> rows[i].source, destination |-> rows[i].destination,
                     amount |-> rows[i].amount] : i \in 1..Len(rows)}

\* C8: two transfers with no account in common never wait for each other, and when
\* both have returned, the results, the balances and the set of records are those of
\* running them one after the other, in either order.
C8_DisjointIndependent ==
  /\ \A w \in Workers : ~Blocked(w)
  /\ (pc["w1"] = "done" /\ pc["w2"] = "done") =>
       \A o \in Orders({"w1", "w2"}) :
         LET t == RunInOrder(Tables(DisjointAccounts, <<>>, 0, [w \in {} |-> ""]), o, req)
         IN /\ accounts = t.accounts
            /\ RecordSet(transactions) = RecordSet(t.transactions)
            /\ Len(transactions) = Len(t.transactions)
            /\ \A w \in {"w1", "w2"} : result[w] = t.results[w]

\* C8 witness: both transfers hold both their locks at the same time.
C8_Witness ==
  /\ pc["w1"] \in {"updSrc", "updDst", "insert", "commit"}
  /\ pc["w2"] \in {"updSrc", "updDst", "insert", "commit"}
  /\ rowLock[1] = "w1" /\ rowLock[2] = "w1" /\ rowLock[3] = "w2" /\ rowLock[4] = "w2"

\* C9: every transfer that has asked for the lock on its source row returns.
C9_Completes == \A w \in Workers : (pc[w] = "lockSrc") ~> (pc[w] = "done")

\* C9 witness: all transfers have returned although two of them had deadlocked.
C9_Witness == AllDone /\ Victims # {} /\ Succeeded # {}

\* w and v transfer in opposite directions between the same two accounts, each holds
\* the lock on its own source row and waits for the lock on its destination row.
Deadlocked(w, v) ==
  /\ w # v
  /\ req[w].source = req[v].destination /\ req[w].destination = req[v].source
  /\ pc[w] = "lockDst" /\ pc[v] = "lockDst"
  /\ rowLock[req[w].source] = w /\ rowLock[req[v].source] = v

\* The store has aborted w's wait for its destination row.
Aborted(w) == pc[w] = "lockDst" /\ pc'[w] = "done" /\ result'[w] = "failed to get destination account"

\* C10: two opposite transfers that each hold their own source row and wait for the
\* other's stay so in every step, except a step in which the store aborts one of them.
C10_DeadlockPersists ==
  [][\A w, v \in Workers :
       Deadlocked(w, v) => (Deadlocked(w, v)' \/ Aborted(w) \/ Aborted(v))]_vars

\* C10 witness: the deadlocked state, with one transfer holding the row of the higher
\* id while it waits for the row of the lower id.
C10_Witness ==
  \E w, v \in Workers :
    /\ Deadlocked(w, v)
    /\ req[v].source > req[v].destination
    /\ Blocked(w) /\ Blocked(v)

\* This step is the return of w's call.
Return(w) == pc[w] \notin {"idle", "done"} /\ pc'[w] = "done"

\* C11: a call fails with "source account not found" exactly when the source row
\* is missing (whatever the destination and the amount); with "insufficient balance"
\* exactly when the source exists with a balance below the amount (whether or not
\* the destination exists); with "destination account not found" exactly when the
\* source exists with a sufficient balance and the destination row is missing.
C11_FailureOrder ==
  [][\A w \in Workers : Return(w) =>
       LET s == req[w].source
           d == req[w].destination
           noSource == s \notin DOMAIN accounts
           short == ~noSource /\ accounts[s] < req[w].amount
           noDest == ~noSource /\ ~short /\ d \notin DOMAIN accounts
       IN /\ (result'[w] = "source account not found") <=> noSource
          /\ (result'[w] = "insufficient balance") <=> short
          /\ (result'[w] = "destination account not found") <=> noDest]_vars

\* C11 witness: a call whose destination does not exist has failed with
\* "insufficient balance", and another whose source and destination both do not exist
\* with "source account not found".
C11_Witness ==
  \E w, v \in Workers :
    /\ pc[w] = "done" /\ result[w] = "insufficient balance"
    /\ req[w].destination \notin DOMAIN accounts
    /\ pc[v] = "done" /\ result[v] = "source account not found"
    /\ req[v].destination \notin DOMAIN accounts

\* The arguments the engine is claimed to reject itself.
InvalidArguments(r) == r.source = r.destination \/ r.amount <= 0

\* C12 (as claimed): a call with the source equal to the destination, or with an
\* amount that is zero or negative, returns an invalid-argument error, and changes no
\* balance and adds no record.
C12_EngineValidates_AsClaimed ==
  [][\A w \in Workers : (Return(w) /\ InvalidArguments(req[w])) =>
       /\ result'[w] = "invalid argument"
       /\ accounts' = accounts /\ transactions' = transactions]_vars

\* The errors CreateTransaction returns for such arguments: those of its lookups and
\* those of the statements the table constraints reject.
EngineErrors ==
  {"source account not found", "insufficient balance", "destination account not found",
   "failed to update source account", "failed to update destination account",
   "failed to create transaction record"}

\* C12 (amended): the engine does not validate its arguments; a call with the source
\* equal to the destination, or with an amount that is zero or negative, never
\* returns nil: it returns the error of a failed lookup or of a statement that a table
\* constraint rejected, and no step of it changes a committed balance or record.
C12_InvalidArgumentsFail ==
  [][/\ \A w \in Workers : (Return(w) /\ InvalidArguments(req[w])) =>
          /\ result'[w] \in EngineErrors
          /\ accounts' = accounts /\ transactions' = transactions
     /\ (accounts' # accounts \/ transactions' # transactions) =>
          \E w \in Workers : OkReturn(w) /\ ~InvalidArguments(req[w])]_vars

\* C12 witness: a transfer from an account to itself passed the balance check and
\* both updates and was rejected at the insert; one with a negative amount too.
C12_Witness ==
  \E w, v \in Workers :
    /\ pc[w] = "done" /\ req[w].source = req[w].destination /\ req[w].amount > 0
    /\ result[w] = "failed to create transaction record"
    /\ pc[v] = "done" /\ req[v].amount < 0 /\ req[v].source # req[v].destination
    /\ result[v] \in {"failed to create transaction record", "failed to update destination account"}
    /\ accounts = EngineAccounts /\ transactions = <<>>

\* The bodies of POST /transactions that the handler must refuse: a source or
\* destination id that is not positive, the same account twice, or an amount that
\* is malformed, zero or negative.
InvalidTransaction(body) ==
  \/ body.source_account_id <= 0
  \/ body.destination_account_id <= 0
  \/ body.source_account_id = body.destination_account_id
  \/ body.amount \in {"", "abc", "0", "-0.00001"}

\* What the Transfer Engine holds: the tables, the locks and every call's state.
engineVars == <<accounts, transactions, seq, rowLock, txVars, calls, okCount>>

C14_DuplicateConflict ==
  [][\A w \in Workers :
       (/\ handler[w].pc \in {"exists", "insert"}
        /\ handler[w].id \in DOMAIN accounts
        /\ handler'[w] # handler[w]) =>
         /\ accounts' = accounts
         /\ transactions' = transactions
         /\ handler'[w].status # 201
         /\ (handler[w].pc = "exists" =>
               /\ handler'[w].status = 409
               /\ handler'[w].message = "Account already exists")]_vars

\* C14 happens: account 3 was created with 0.00002 and a later request for id 3
\* was answered 409, the row unchanged.
C14_Witness ==
  \E w, v \in Workers :
    /\ handler[w].pc = "done" /\ handler[w].status = 201 /\ handler[w].id = 3
    /\ handler[v].pc = "done" /\ handler[v].status = 409 /\ handler[v].id = 3
    /\ accounts[3] = 20

\* C15 as stated: every valid POST /accounts is answered 201 or 409, and at most
\* one request per account id is answered 201.
C15_CreatedOrConflict ==
  /\ \A w \in Workers :
       (handler[w].pc = "done" /\ handler[w].id # 0) => handler[w].status \in {201, 409}
  /\ \A w, v \in Workers :
       (/\ w # v
        /\ handler[w].pc = "done" /\ handler[v].pc = "done"
        /\ handler[w].id # 0 /\ handler[w].id = handler[v].id) =>
         ~(handler[w].status = 201 /\ handler[v].status = 201)

\* C16: an account, once created, is in the table in every later state, and its
\* balance changes only in the step in which a transfer naming it returns nil:
\* reads, existence checks, failed transfers and later account creations leave
\* every existing balance as it is.
C16_AccountsPersist ==
  [][/\ DOMAIN accounts \subseteq DOMAIN accounts'
     /\ \A i \in DOMAIN accounts :
          accounts'[i] # accounts[i] =>
            \E w \in Workers : OkReturn(w) /\ i \in {req[w].source, req[w].destination}]_vars

\* C16 happens: account 3 was created with 0.00002, a transfer into 3 returned
\* nil, and 3 holds 0.00002 plus the amount of that transfer.
C16_Witness ==
  \E w, v \in Workers :
    /\ handler[w].pc = "done" /\ handler[w].status = 201 /\ handler[w].id = 3
    /\ handler[v].pc = "done" /\ handler[v].status = 201 /\ result[v] = "ok"
    /\ req[v].destination = 3
    /\ accounts[3] = 20 + req[v].amount

\* C17: GetAccount returns the committed row, so a second GetAccount of the same
\* account with no committed change of it in between returns the same id and the
\* same balance as the first: a read returns the committed balance, a read of an
\* account whose committed balance is still the one last read returns the same
\* answer, and a step that commits no change to an account leaves the answer of
\* GetAccount for it as it was.
C17_RepeatableRead ==
  [][/\ \A id \in CallIds :
          GetAccount(id) =>
            /\ lastRead'.id = id
            /\ lastRead'.found => lastRead'.balance = accounts[id]
            /\ (lastRead.found /\ lastRead.id = id /\ lastRead.balance = accounts[id]) =>
                 lastRead' = lastRead
     /\ \A id \in DOMAIN accounts :
          accounts'[id] = accounts[id] => GetAccountResult(id)' = GetAccountResult(id)]_vars

\* C17 happens: account 2 was read, and a transfer out of it has since written its
\* new balance without committing; a second read returns what the first did.
C17_Witness ==
  \E w \in Workers :
    /\ lastRead.found /\ lastRead.id = 2 /\ lastRead.balance > 0
    /\ 2 \in DOMAIN txWrites[w] /\ txWrites[w][2] < accounts[2]
    /\ GetAccountResult(2) = lastRead

\* C18: GET /accounts/{account_id} answers 400 when the id is not an integer, 404
\* when no account has the id (zero and negative ids parse and are not found), and
\* 200 with the id and the committed balance otherwise; it changes nothing.
C18_GetAccountAnswers ==
  [][\A w \in Workers : \A accountIDStr \in AccountIDStrs :
       HandlerGetAccount(w, accountIDStr) =>
         LET n == CASE accountIDStr = "1" -> 1 [] accountIDStr = "2" -> 2
                    [] accountIDStr = "3" -> 3 [] OTHER -> 0
         IN /\ accountIDStr = "abc" => handler'[w].status = 400
            /\ accountIDStr \in {"0", "-1"} => handler'[w].status = 404
            /\ (n # 0 /\ n \notin DOMAIN accounts) => handler'[w].status = 404
            /\ (n # 0 /\ n \in DOMAIN accounts) =>
                 /\ handler'[w].status = 200
                 /\ handler'[w].account.id = n
                 /\ handler'[w].account.balance = accounts[n]
            /\ UNCHANGED <<engineVars, lastRead, mock>>]_vars

\* C18 happens: one request was answered 404, another 200 with the id and the
\* committed balance of account 1.
C18_Witness ==
  \E w, v \in Workers :
    /\ handler[w].pc = "done" /\ handler[w].status = 404
    /\ handler[w].message = "Account not found"
    /\ handler[v].pc = "done" /\ handler[v].status = 200
    /\ handler[v].account = [id |-> 1, found |-> TRUE, balance |-> 20]

\* C19: every record names two different accounts, both in the accounts table
\* before the record was committed, and has an amount greater than zero.
C19_RecordsWellFormed ==
  [][\A k \in 1..Len(transactions') :
       /\ transactions'[k].source # transactions'[k].destination
       /\ transactions'[k].amount > 0
       /\ transactions'[k].source \in DOMAIN accounts
       /\ transactions'[k].destination \in DOMAIN accounts]_vars

\* C19 happens: a transfer from 1 to 2 left its record, and a call with an amount
\* that is not positive, on the same two accounts, left none.
C19_Witness ==
  \E w, v \in Workers :
    /\ pc[w] = "done" /\ result[w] = "ok"
    /\ pc[v] = "done" /\ req[v].amount <= 0 /\ req[v].source = 1 /\ req[v].destination = 2
    /\ Len(transactions) = 1
    /\ transactions[1].source = 1 /\ transactions[1].destination = 2

\* The ids of the rows of a sequence of records.
RecordIds(rows) == {rows[k].id : k \in 1..Len(rows)}

\* C20: records are append-only.  A committed record stays where it is with its
\* id, source, destination and amount; every id written is greater than every id
\* written before it, committed or not; no committed id is committed again.
C20_AppendOnly ==
  [][/\ Len(transactions') >= Len(transactions)
     /\ \A k \in 1..Len(transactions) : transactions'[k] = transactions[k]
     /\ \A k \in (Len(transactions) + 1)..Len(transactions') :
          transactions'[k].id \notin RecordIds(transactions)
     /\ \A w \in Workers :
          Len(txInsert'[w]) > Len(txInsert[w]) =>
            LET id == txInsert'[w][Len(txInsert'[w])].id
            IN /\ \A j \in RecordIds(transactions) : j < id
               /\ \A v \in Workers : \A j \in RecordIds(txInsert[v]) : j < id]_vars

\* C20 happens: two transfers wrote their records at the same time; the one with
\* the greater id committed first and both records are in the table.
C20_Witness ==
  /\ Len(transactions) = 2
  /\ transactions[1].id = 2 /\ transactions[2].id = 1
  /\ seq = 2

\* C21: the status of the answer to a well-formed POST /transactions is decided by
\* what CreateTransaction returned: 201 for nil, 404 for a missing source, 404 for
\* a missing destination, 400 for insufficient balance, 500 for any other error.
C21_StatusByResult ==
  [][\A w \in Workers :
       HandlerTransactionResponse(w) =>
         /\ result[w] = "ok" => handler'[w].status = 201
         /\ result[w] = "source account not found" => handler'[w].status = 404
         /\ result[w] = "destination account not found" => handler'[w].status = 404
         /\ result[w] = "insufficient balance" => handler'[w].status = 400
         /\ result[w] \notin {"ok", "source account not found", "destination account not found",
                             "insufficient balance"} => handler'[w].status = 500]_vars

\* C21 happens: one transfer met a storage error and was answered 500, another
\* found insufficient balance and was answered 400.
C21_Witness ==
  \E w, v \in Workers :
    /\ handler[w].pc = "done" /\ handler[w].status = 500
    /\ result[w] = "failed to update destination account"
    /\ handler[v].pc = "done" /\ handler[v].status = 400
    /\ result[v] = "insufficient balance"

\* C22: a POST /accounts with an id that is zero or negative, or with an initial
\* balance that is missing, malformed or negative, is answered 400 and creates no
\* account; the INSERT of a request with a positive unused id and a balance of
\* zero or more is answered 201 and leaves a row holding exactly that balance.
C22_CreateAccountAnswers ==
  [][\A w \in Workers :
       /\ \A body \in AccountBodies :
            (/\ HandlerCreateAccount(w, body)
             /\ body.json
             /\ (body.account_id <= 0 \/ body.initial_balance \in {"", "abc", "-0.00001"})) =>
              /\ handler'[w].pc = "done"
              /\ handler'[w].status = 400
              /\ accounts' = accounts
       /\ (/\ handler[w].pc = "insert" /\ handler'[w].pc = "done"
           /\ handler[w].id \notin DOMAIN accounts) =>
            /\ handler'[w].status = 201
            /\ accounts' = (handler[w].id :> handler[w].balance) @@ accounts]_vars

\* The bodies the handlers write with http.Error.
ErrorBodies ==
  {"Invalid request body", "Account ID must be positive", "Invalid initial balance format",
   "Initial balance cannot be negative", "Internal server error", "Account already exists",
   "Failed to create account", "Invalid account ID", "Account not found",
   "Account IDs must be positive", "Source and destination accounts must be different",
   "Invalid amount format", "Amount must be positive", "Source account not found",
   "Destination account not found", "Insufficient balance", "Failed to process transaction"}

\* C23: the body of every answer that is not 2xx is one of a fixed set of short
\* messages, and the answer to a failed transfer is the same whatever text the
\* storage error carries.
C23_FixedErrorBodies ==
  [][\A w \in Workers :
       /\ (handler'[w].pc = "done" /\ handler'[w].status \notin {200, 201}) =>
            handler'[w].message \in ErrorBodies
       /\ HandlerTransactionResponse(w) =>
            \A text \in StorageErrorTexts :
              LET err == IF result[w] = "ok" THEN "ok" ELSE ErrorString(result[w], text)
              IN /\ handler'[w].status = TransactionResponse(err).status
                 /\ handler'[w].message = TransactionResponse(err).message]_vars

\* C23 happens: a transfer whose commit failed in the storage layer and an account
\* creation whose INSERT failed were both answered 500 with their fixed messages.
C23_Witness ==
  \E w, v \in Workers :
    /\ handler[w].pc = "done" /\ result[w] = "failed to commit transaction"
    /\ handler[w].status = 500 /\ handler[w].message = "Failed to process transaction"
    /\ handler[v].pc = "done" /\ handler[v].id = 3
    /\ handler[v].status = 500 /\ handler[v].message = "Failed to create account"
    /\ 3 \notin DOMAIN accounts

\* C24 as stated: no call of CreateAccount, GetAccount, AccountExists or
\* CreateTransaction ends in a panic, whatever the state of the handle.
C24_NoPanicEscapes == db.outcome # "panic"

\* This step is a turn of Migrate's loop.
MigrateTurn == db.migrating /\ db' # db

\* C25: Migrate creates the accounts table, then the transactions table, then the
\* indexes; the first failing migration ends the run with an error naming its
\* position counted from 1, nothing further is executed, and nil is returned
\* only by the run that executed all three.
C25_MigrateInOrder ==
  [][/\ MigrateTurn =>
          /\ db'.schema \in {db.schema, db.schema \cup {Migrations[db.i + 1]}}
          /\ (db'.migrating /\ db.i = 0) => "accounts" \in db'.schema
          /\ (db'.migrating /\ db.i = 1) => {"accounts", "transactions"} \subseteq db'.schema
          /\ db'.migrating => db'.i = db.i + 1
          /\ (~db'.migrating /\ db'.error # "nil") =>
               /\ db'.schema = db.schema
               /\ db.i = 0 => db'.error = "failed to run migration 1"
               /\ db.i = 1 => db'.error = "failed to run migration 2"
               /\ db.i = 2 => db'.error = "failed to run migration 3"
          /\ (~db'.migrating /\ db'.error = "nil") =>
               /\ db.i = 2
               /\ db'.schema = {"accounts", "transactions", "indexes"}
     /\ ~db.migrating => (db'.schema = db.schema /\ (db'.migrating => db'.i = 0))]_vars

\* C25 happens: the second migration failed, the run returned "failed to run
\* migration 2" and the indexes were not created.
C25_Witness ==
  /\ ~db.migrating
  /\ db.error = "failed to run migration 2"
  /\ db.schema = {"accounts"}

\* C26: Migrate run on a database on which it has succeeded returns nil again, and
\* no turn of it changes the schema, an account row or a transfer record.
C26_MigrateIdempotent ==
  [][(MigrateTurn /\ db.schema = {"accounts", "transactions", "indexes"}) =>
       /\ db'.schema = db.schema
       /\ accounts' = accounts
       /\ transactions' = transactions
       /\ ~db'.migrating => db'.error = "nil"]_vars

\* C26 happens: Migrate has returned nil a second time on a database holding
\* accounts and a transfer record, all still there.
C26_Witness ==
  /\ db.runs = 2 /\ ~db.migrating /\ db.error = "nil"
  /\ DOMAIN accounts = {1, 2}
  /\ Len(transactions) = 1

\* C27: HealthCheck answers 200 with the body {"status":"healthy"} for every
\* method and every state of the store and of the handle, the handler without
\* repositories included, and changes nothing; a repeated call answers the same.
C27_AlwaysHealthy ==
  [][\A w \in Workers : \A method \in Methods :
       HandlerHealthCheck(w, method) =>
         /\ handler'[w].pc = "done"
         /\ handler'[w].status = 200
         /\ handler'[w].message = "{\"status\":\"healthy\"}"
         /\ UNCHANGED <<engineVars, lastRead, mock, db>>]_vars

\* C27 happens: on a handler without repositories, after a repository call that
\* could not reach any store, two health checks were answered 200.
C27_Witness ==
  /\ db.handle = "absent" /\ db.outcome = "panic"
  /\ \A w \in Clients :
       /\ handler[w].pc = "done" /\ handler[w].status = 200
       /\ handler[w].message = "{\"status\":\"healthy\"}"

\* The positions at which a transfer holds the locks on both of its rows.
BothLocked == {"updSrc", "updDst", "insert", "commit"}

\* C28: while a transfer holds the lock on a row, no other transaction writes that
\* row, its committed balance changes only by the commit of the holder, and the
\* lock leaves the holder only when the holder's call ends; from the destination
\* lock to the end the transfer holds the locks on both rows.
C28_NoEarlyRelease ==
  [][\A w \in Workers :
       /\ \A i \in DOMAIN accounts :
            rowLock[i] = w =>
              /\ \A v \in Workers \ {w} : i \notin DOMAIN txWrites'[v] /\ i \notin DOMAIN txWrites[v]
              /\ accounts'[i] # accounts[i] => OkReturn(w)
              /\ rowLock'[i] # w => (pc'[w] = "done" /\ rowLock'[i] = NoTx)
       /\ pc[w] \in BothLocked =>
            (rowLock[req[w].source] = w /\ rowLock[req[w].destination] = w)]_vars

\* C28 happens: a transfer holds both locks with both balances written and not
\* committed, while another transfer waits for one of the two rows.
C28_Witness ==
  \E w, v \in Workers :
    /\ pc[w] = "insert"
    /\ DOMAIN txWrites[w] = {req[w].source, req[w].destination}
    /\ pc[v] = "lockSrc" /\ rowLock[req[v].source] = w

\* The position that follows each position of CreateTransaction.
NextPosition ==
  [p \in {"begin", "lockSrc", "lockDst", "updSrc", "updDst", "insert", "commit"} |->
     CASE p = "begin" -> "lockSrc"
       [] p = "lockSrc" -> "lockDst"
       [] p = "lockDst" -> "updSrc"
       [] p = "updSrc" -> "updDst"
       [] p = "updDst" -> "insert"
       [] p = "insert" -> "commit"
       [] OTHER -> "done"]

\* C29: a transfer goes through its statements in the order lock source, balance
\* check, lock destination, debit, credit, insert, commit, or returns.  It gets the
\* lock on its destination row only while it holds the lock on its source row and
\* found the source balance sufficient, whichever of the two ids is the smaller;
\* it debits before it credits, and writes its record after both.
C29_StepOrder ==
  [][\A w \in Workers :
       /\ (pc[w] \notin {"idle", "done"} /\ pc'[w] # pc[w]) =>
            pc'[w] \in {NextPosition[pc[w]], "done"}
       /\ (pc[w] \notin {"idle", "done"} /\ pc'[w] # "done") =>
            /\ (req[w].source \in DOMAIN accounts /\ rowLock'[req[w].source] = w
                  /\ rowLock[req[w].source] # w) => pc[w] = "lockSrc"
            /\ (req[w].destination \in DOMAIN accounts /\ rowLock'[req[w].destination] = w
                  /\ rowLock[req[w].destination] # w) =>
                 /\ pc[w] = "lockDst"
                 /\ rowLock[req[w].source] = w
                 /\ sourceBalance[w] >= req[w].amount
            /\ (req[w].source \in DOMAIN txWrites'[w] /\ req[w].source \notin DOMAIN txWrites[w]) =>
                 (pc[w] = "updSrc" /\ rowLock[req[w].destination] = w)
            /\ (req[w].destination \in DOMAIN txWrites'[w]
                  /\ req[w].destination \notin DOMAIN txWrites[w]) =>
                 (pc[w] = "updDst" /\ req[w].source \in DOMAIN txWrites[w])
            /\ txInsert'[w] # txInsert[w] =>
                 (pc[w] = "insert" /\ DOMAIN txWrites[w] = {req[w].source, req[w].destination})
       /\ OkReturn(w) => (pc[w] = "commit" /\ Len(txInsert[w]) = 1)]_vars

\* C29 happens: a transfer whose destination id is the smaller holds the lock on
\* its source row, has passed the balance check and asks for its destination row.
C29_Witness ==
  \E w \in Workers :
    /\ pc[w] = "lockDst"
    /\ req[w].destination < req[w].source
    /\ rowLock[req[w].source] = w /\ rowLock[req[w].destination] # w
    /\ sourceBalance[w] >= req[w].amount

\* C30: a transfer that has returned, with nil or with any error, holds no row
\* lock; a transfer leaves its wait for the source row by a decision on the
\* committed balance of that moment; and every transfer that waits for a row lock
\* stops waiting.
C30_ReleasedAndFresh ==
  /\ [][\A w \in Workers :
          /\ Return(w) => \A i \in Ids : rowLock'[i] # w
          /\ (pc[w] = "lockSrc" /\ pc'[w] # "lockSrc" /\ req[w].source \in DOMAIN accounts) =>
               /\ rowLock[req[w].source] = NoTx
               /\ \A v \in Workers : req[w].source \notin DOMAIN txWrites[v]
               /\ pc'[w] = "lockDst" <=> accounts[req[w].source] >= req[w].amount
               /\ pc'[w] = "lockDst" => sourceBalance'[w] = accounts[req[w].source]
               /\ result'[w] = "insufficient balance" <=> accounts[req[w].source] < req[w].amount]_vars
  /\ \A w \in Workers : Blocked(w) ~> ~Blocked(w)

\* C30 happens: a transfer that waited for its source row found insufficient
\* balance there, although the balance the row held when it began to wait would
\* have been enough: the transfer it waited for had committed a debit.
C30_Witness ==
  \E w, v \in Workers :
    /\ pc[w] = "done" /\ result[w] = "ok"
    /\ pc[v] = "done" /\ result[v] = "insufficient balance"
    /\ req[v].source = req[w].source
    /\ SharedAccounts[req[v].source] >= req[v].amount
    /\ accounts[req[v].source] < req[v].amount
    /\ \A u \in Workers \ {w, v} : result[u] # "ok"

\* C31: the balance check is strict.  A transfer leaves its wait for the source
\* row with "insufficient balance" exactly when its amount is greater than the
\* balance, by however little, and goes on exactly when it is not; a transfer of
\* the whole balance that returns nil leaves the source at 0.
C31_StrictBalanceCheck ==
  [][\A w \in Workers :
       /\ (pc[w] = "lockSrc" /\ pc'[w] # "lockSrc" /\ req[w].source \in DOMAIN accounts) =>
            /\ req[w].amount > accounts[req[w].source] <=>
                 (pc'[w] = "done" /\ result'[w] = "insufficient balance")
            /\ req[w].amount <= accounts[req[w].source] <=> pc'[w] = "lockDst"
       /\ (OkReturn(w) /\ req[w].amount = accounts[req[w].source]) =>
            accounts'[req[w].source] = 0]_vars

\* C31 happens: a transfer of 0.000021 from the account holding 0.00002 failed
\* with "insufficient balance", and a transfer of 0.00002 from it returned nil and
\* left it at 0.
C31_Witness ==
  \E w, v \in Workers :
    /\ pc[w] = "done" /\ result[w] = "ok"
    /\ req[w].source = 1 /\ req[w].amount = EngineAccounts[1]
    /\ accounts[1] = 0
    /\ pc[v] = "done" /\ result[v] = "insufficient balance"
    /\ req[v].source = 1 /\ req[v].amount = EngineAccounts[1] + 1

\* The decimal strings of the requests that have more than 5 fractional digits.
SixDigits == {"0.000015", "0.000004"}

\* s is x rounded to 5 fractional digits, a tie going away from zero (x >= 0).
IsRounded(x, s) ==
  /\ s % 10 = 0
  /\ s - x <= 5 /\ x - s <= 5
  /\ x - s # 5

\* s is x with the digits after the fifth dropped (x >= 0).
IsTruncated(x, s) ==
  /\ s % 10 = 0
  /\ x - s >= 0 /\ x - s < 10

\* Every balance and every amount in the tables after this step has at most 5
\* fractional digits, and the handlers let a value with more than 5 through.
FiveDigitsPersisted ==
  /\ \A i \in DOMAIN accounts' : accounts'[i] % 10 = 0
  /\ \A k \in 1..Len(transactions') : transactions'[k].amount % 10 = 0
  /\ \A w \in Workers :
       /\ \A body \in AccountBodies :
            (/\ HandlerCreateAccount(w, body)
             /\ body.json /\ body.account_id > 0 /\ body.initial_balance \in SixDigits) =>
              (handler'[w].pc = "exists" /\ handler'[w].balance % 10 # 0)
       /\ \A body \in TransactionBodies :
            (/\ HandlerCreateTransaction(w, body)
             /\ body.json /\ body.amount \in SixDigits
             /\ body.source_account_id > 0 /\ body.destination_account_id > 0
             /\ body.source_account_id # body.destination_account_id) =>
              (handler'[w].pc = "engine" /\ req'[w].amount % 10 # 0)

\* C32 as stated: the value is cut down to 5 fractional digits by truncation, or
\* refused, when it is written.
C32_TruncatedAtStorage_AsClaimed ==
  [][/\ FiveDigitsPersisted
     /\ \A w \in Workers :
          /\ (handler[w].pc = "insert" /\ handler'[w].status = 201) =>
               IsTruncated(handler[w].balance, accounts'[handler[w].id])
          /\ OkReturn(w) =>
               IsTruncated(req[w].amount, transactions'[Len(transactions')].amount)]_vars

\* C32: every balance and every amount in the tables has at most 5 fractional
\* digits; a value with more passes the handler's parsing and validation, and the
\* column it is written to rounds it to 5 digits (a tie away from zero); an amount
\* that rounds to zero is refused by the store.
C32_RoundedAtStorage ==
  [][/\ FiveDigitsPersisted
     /\ \A w \in Workers :
          /\ (handler[w].pc = "insert" /\ handler'[w].status = 201) =>
               IsRounded(handler[w].balance, accounts'[handler[w].id])
          /\ OkReturn(w) =>
               /\ IsRounded(req[w].amount, transactions'[Len(transactions')].amount)
               /\ transactions'[Len(transactions')].amount > 0
          /\ (pc[w] = "insert" /\ pc'[w] # "insert" /\ req[w].amount < 5) =>
               (pc'[w] = "done" /\ result'[w] = "failed to create transaction record")]_vars

\* C32 happens: an account sent with 0.000015 holds 0.00002, and a transfer of
\* 0.000004 was refused by the store and answered 500.
C32_Witness ==
  \E w, v \in Workers :
    /\ handler[w].pc = "done" /\ handler[w].status = 201
    /\ handler[w].id = 3 /\ handler[w].balance = 15 /\ accounts[3] = 20
    /\ handler[v].pc = "done" /\ handler[v].status = 500
    /\ req[v].amount = 4 /\ result[v] = "failed to create transaction record"

\* The decimal strings of the requests that are in scientific notation or are
\* not a number.
Malformed == {"1e-5", "abc"}

\* C33 as stated: a POST /accounts or POST /transactions request whose decimal
\* string is in scientific notation or is non-numeric text is answered 400 and
\* changes no account and no record.
C33_ScientificRejected_AsClaimed ==
  [][\A w \in Workers :
       /\ \A body \in AccountBodies :
            (/\ HandlerCreateAccount(w, body)
             /\ body.json /\ body.account_id > 0 /\ body.initial_balance \in Malformed) =>
              /\ handler'[w].pc = "done" /\ handler'[w].status = 400
              /\ UNCHANGED engineVars
       /\ \A body \in TransactionBodies :
            (/\ HandlerCreateTransaction(w, body)
             /\ body.json /\ body.amount \in Malformed) =>
              /\ handler'[w].pc = "done" /\ handler'[w].status = 400
              /\ UNCHANGED engineVars]_vars

\* C34 as stated: a transfer whose amount has more than 5 fractional digits either
\* fails and changes nothing, or debits the source, credits the destination and
\* records the transfer with one and the same value, so that the sum of the two
\* balances is unchanged.
C34_OnePersistedAmount_AsClaimed ==
  [][\A w \in Workers : (req[w].amount % 10 # 0) =>
       /\ FailedReturn(w) => (accounts' = accounts /\ transactions' = transactions)
       /\ OkReturn(w) =>
            LET debited  == accounts[req[w].source] - accounts'[req[w].source]
                credited == accounts'[req[w].destination] - accounts[req[w].destination]
                recorded == transactions'[Len(transactions')].amount
            IN  /\ debited = recorded
                /\ credited = recorded
                /\ debited = credited]_vars

\* The sum of the amounts of the records that name account i as destination.
RECURSIVE SumIn(_, _)
SumIn(rows, i) ==
  IF rows = <<>> THEN 0
  ELSE (IF Head(rows).destination = i THEN Head(rows).amount ELSE 0) + SumIn(Tail(rows), i)

\* The sum of the amounts of the records that name account i as source.
RECURSIVE SumOut(_, _)
SumOut(rows, i) ==
  IF rows = <<>> THEN 0
  ELSE (IF Head(rows).source = i THEN Head(rows).amount ELSE 0) + SumOut(Tail(rows), i)

\* C36 as stated: in every committed state every account's balance is its initial
\* balance plus the amounts of the records naming it as destination minus the
\* amounts of the records naming it as source.
C36_BalanceIsLedger_AsClaimed ==
  \A i \in DOMAIN accounts :
    accounts[i] = DisjointAccounts[i] + SumIn(transactions, i) - SumOut(transactions, i)

\* The sum of the balances of a table of accounts.
RECURSIVE SumBalances(_, _)
SumBalances(acc, S) ==
  IF S = {} THEN 0
  ELSE LET i == CHOOSE j \in S : TRUE IN acc[i] + SumBalances(acc, S \ {i})

\* C37 as stated: in every committed state, under every interleaving of concurrent
\* transfers, the sum of all balances is the sum of the initial balances of the
\* accounts created so far.
C37_FundsConserved_AsClaimed ==
  SumBalances(accounts, DOMAIN accounts) = SumBalances(SharedAccounts, DOMAIN SharedAccounts)

\* C35: a transfer whose credit would make the destination balance, as stored at
\* 5 fractional digits, larger than the column can hold returns "failed to update
\* destination account"; the step leaves every committed balance and the records
\* as they were, discards the debit the transaction had made and releases its
\* locks, and the committed source balance is the one from before the call.
C35_OverflowFailsWhole ==
  [][\A w \in Workers :
       (/\ pc[w] = "updDst" /\ pc'[w] # "updDst"
        /\ req[w].source # req[w].destination
        /\ accounts[req[w].destination] + req[w].amount >= ColumnMax + 5) =>
         /\ pc'[w] = "done" /\ result'[w] = "failed to update destination account"
         /\ accounts' = accounts /\ transactions' = transactions
         /\ txWrites[w] # NoWrites /\ txWrites'[w] = NoWrites /\ txInsert'[w] = <<>>
         /\ \A i \in Ids : rowLock'[i] # w]_vars

\* C35 happens: a transfer of 0.00002 from account 1 to account 2, which is
\* 0.00001 below the largest balance, has failed at the credit; both balances are
\* the initial ones and there is no record of it.
C35_Witness ==
  \E w \in Workers :
    /\ pc[w] = "done" /\ result[w] = "failed to update destination account"
    /\ req[w] = [source |-> 1, destination |-> 2, amount |-> 20]
    /\ accounts[1] = OverflowAccounts[1] /\ accounts[2] = ColumnMax - 10
    /\ \A k \in 1..Len(transactions) : transactions[k].amount # 20

\* The kind of a repository call's result: success, one of the three named
\* failures of a transfer, or any other error.
Kind(err) ==
  IF err \in {"ok", "", "source account not found", "destination account not found",
              "insufficient balance"}
    THEN err ELSE "error"

\* C38 as stated: after every sequence of CreateAccount and CreateTransaction calls
\* made with the same arguments on both, the in-memory implementation and the
\* storage-backed one have returned the same kind of result at the last call and
\* hold the same balances.
C38_MockInterchangeable_AsClaimed ==
  /\ Kind(mock.result["w1"]) = Kind(result["w1"])
  /\ mock.accounts = accounts

\* C39 as stated: no caller is about to read the Balance of an account through the
\* pointer GetAccount returned while another caller is inside CreateTransaction
\* and about to assign that Balance.
C39_NoRacingRead_AsClaimed ==
  \A w, v \in Workers : ~(mock.pc[w] = "read" /\ Writing(v, mock.ptr[w]))

====
